---- MODULE Spec2Model ----
(***************************************************************************)
(* Verification model of the raster processing backend:                    *)
(*   - BatchProcessor.run and its two task pipelines                       *)
(*     (backend/batch/batch_processor.py),                                 *)
(*   - TaskRepository.update_task_status                                   *)
(*     (backend/app/services/task_repository.py),                          *)
(*   - RasterProcessor.apply_cloud_mask                                    *)
(*     (backend/app/services/raster_processor.py),                         *)
(*   - TemporalCompositor (backend/app/services/temporal_compositor.py).   *)
(*                                                                         *)
(* Conventions.  Python None is the empty sequence and a present optional  *)
(* value x is <<x>>.  A missing (NaN) pixel is the empty sequence and a    *)
(* present pixel value is the reduced fraction <<num, den>>.  Strings that *)
(* are compared lexicographically are sequences of character codes.        *)
(*                                                                         *)
(* Environment assumptions of the batch job specification: the task store  *)
(* is reachable and holds the task's record, and removing the task's own   *)
(* temporary directory succeeds.  Failures of image reads, clipping,       *)
(* masking, encoding and uploading are inputs of the model.                *)
(***************************************************************************)
EXTENDS Integers, Sequences, FiniteSets, TLC

\* ------------------------------------------------------------------ bounds
MaxImages == 3      \* longest image_urls list of a composite request
MaxIndices == 2     \* longest indices list of an indices request
MaxQA == 31         \* quality values 0..MaxQA are enumerated (bits 0..4)
NPix == 2           \* pixels of a raster in the direct calls
MaxStack == 3       \* longest images / timestamps list of a direct call
MaxDim == 9         \* widest raster of a direct call of to_cog, in pixels
MaxPolls == 2       \* status requests made for a task
MaxCancels == 1     \* cancel requests made for a task
MaxAttempts == 2    \* attempts of a batch job that are followed
MaxTasks == 3       \* most records of the task table
PageLimit == 2      \* the limit of a list_tasks page (100 in the code), scaled

\* --------------------------------------------------------------- optionals
None == <<>>
Some(x) == <<x>>

VARIABLES
    pc,             \* position of BatchProcessor.run
    params,         \* the task parameters read from the environment
    i,              \* loop counter of the loop run is in
    clipped_images, \* process_temporal_composite: images read so far
    image_outcome,  \* per request position: "pending", "ok" or "skipped"
    composites,     \* process_temporal_composite: result of composite_monthly
    bands_data,     \* process_vegetation_indices: the band names that were read
    output_files,   \* output descriptors built so far
    result,         \* the ProcessingResult handed to run
    raised,         \* the exception message that left the try block of run
    reports,        \* every progress value passed to update_task_status, in order
    task,           \* the task's record in the task store
    started_at_set, \* BatchProcessor._started_at_set
    temp_dir,       \* the task's temporary directory: does it exist, the files in it
    s3_objects,     \* keys of the objects uploaded to the bucket
    exit_code,      \* the value run returns
    call,           \* a direct call of a service function: its name and arguments
    ret,            \* what that call returned or raised, None while it runs
    cog,            \* the frame of a running to_cog and the file it wrote
    api,            \* the requests in flight at the processing endpoints
    batch,          \* the task's job in the batch queue
    sweep           \* the frame of a running cleanup_expired_tasks and its table

jobVars == <<pc, params, i, clipped_images, image_outcome, composites, bands_data,
             output_files, result, raised, reports, task, started_at_set,
             temp_dir, s3_objects, exit_code>>

serviceVars == <<api, batch, sweep>>

vars == <<jobVars, call, ret, cog, serviceVars>>

\* ------------------------------------------------------------------ pixels
\* A pixel is Missing (NaN) or a fraction <<num, den>> in lowest terms, den > 0.
Missing == <<>>

Abs(n) == IF n < 0 THEN -n ELSE n

RECURSIVE GCD(_, _)
GCD(a, b) == IF b = 0 THEN a ELSE GCD(b, a % b)

Frac(n, d) == LET g == GCD(Abs(n), d) IN <<n \div g, d \div g>>

FracAdd(a, b) == Frac(a[1] * b[2] + b[1] * a[2], a[2] * b[2])

FracDiv(a, k) == Frac(a[1], a[2] * k)

\* numpy astype(np.float32) of a pixel: NaN stays NaN, an integer keeps a
\* 24-bit significand (round to nearest, ties to even); the fractions of the
\* model are dyadic values that float32 holds exactly.
RECURSIVE Ulp32(_, _)
Ulp32(n, e) == IF n \div e < 2^24 THEN e ELSE Ulp32(n, 2 * e)

RoundInt32(n) ==
    LET e == Ulp32(n, 1)
        q == n \div e
        r == n % e
        up == (2 * r > e) \/ (2 * r = e /\ q % 2 = 1)
    IN  IF up THEN (q + 1) * e ELSE q * e

astype_float32(px) ==
    IF px = Missing THEN Missing
    ELSE IF px[2] # 1 THEN px
    ELSE IF px[1] < 0 THEN <<-RoundInt32(-px[1]), 1>>
    ELSE <<RoundInt32(px[1]), 1>>

\* --------------------------------------------------------------- rasters
\* A raster (xr.DataArray) is [values |-> bands of pixels, crs |-> ..]; every
\* band is a sequence over the same pixel positions.
Raster(values, crs) == [values |-> values, crs |-> crs]

Ok(v) == [ok |-> TRUE, value |-> Some(v), error |-> ""]
Raise(msg) == [ok |-> FALSE, value |-> None, error |-> msg]

\* ------------------------------------------------ RasterProcessor.apply_cloud_mask
SupportedSatellites == {"sentinel-2", "landsat-8"}

bad_classes == {0, 1, 3, 8, 9, 10}

cloud_bit == 2^3
shadow_bit == 2^4
dilated_bit == 2^1

RECURSIVE BitAnd(_, _)
BitAnd(a, b) ==
    IF a = 0 \/ b = 0 THEN 0
    ELSE (a % 2) * (b % 2) + 2 * BitAnd(a \div 2, b \div 2)

astype_uint16(v) == v % 2^16

\* variant of cloud_mask that leaves out the dilated-cloud test
cloud_mask_no_dilated(qa_values, satellite) ==
    [p \in DOMAIN qa_values |->
        IF satellite = "sentinel-2"
        THEN qa_values[p] \in bad_classes
        ELSE LET qa_int == astype_uint16(qa_values[p])
             IN  \/ BitAnd(qa_int, cloud_bit) # 0
                 \/ BitAnd(qa_int, shadow_bit) # 0]

\* the 2D mask of lines 436-464: TRUE where the pixel is flagged
cloud_mask(qa_values, satellite) ==
    [p \in DOMAIN qa_values |->
        IF satellite = "sentinel-2"
        THEN qa_values[p] \in bad_classes
        ELSE LET qa_int == astype_uint16(qa_values[p])
             IN  \/ BitAnd(qa_int, cloud_bit) # 0
                 \/ BitAnd(qa_int, shadow_bit) # 0
                 \/ BitAnd(qa_int, dilated_bit) # 0]

apply_cloud_mask(data, qa_band, satellite) ==
    IF satellite \notin SupportedSatellites
    THEN Raise("Cloud masking not supported for satellite")
    ELSE LET qa_values == qa_band.values[1]
             m == cloud_mask(qa_values, satellite)
         IN  Ok([data EXCEPT !.values =
                    [b \in DOMAIN data.values |->
                        [p \in DOMAIN data.values[b] |->
                            IF m[p] THEN Missing
                            ELSE astype_float32(data.values[b][p])]]])

\* ------------------------------------------------------ TemporalCompositor
\* A timestamp is [year |-> 1..9999, month |-> 1..12] (datetime's ranges).
\* A period label is a Python str, modelled as its sequence of character
\* codes ('0' = 48 .. '9' = 57, '-' = 45) so that sorted() can be computed.
Digit(d) == 48 + d

Format04d(n) ==
    <<Digit((n \div 1000) % 10), Digit((n \div 100) % 10),
      Digit((n \div 10) % 10), Digit(n % 10)>>

Format02d(n) == <<Digit((n \div 10) % 10), Digit(n % 10)>>

period_key(ts) == Format04d(ts.year) \o <<45>> \o Format02d(ts.month)

\* Python's str < str
RECURSIVE StrLess(_, _)
StrLess(a, b) ==
    IF b = <<>> THEN FALSE
    ELSE IF a = <<>> THEN TRUE
    ELSE IF a[1] # b[1] THEN a[1] < b[1]
    ELSE StrLess(Tail(a), Tail(b))

\* variant of sorted that returns the keys in descending order
RECURSIVE sorted_descending(_)
sorted_descending(S) ==
    IF S = {} THEN <<>>
    ELSE LET m == CHOOSE x \in S : \A y \in S : x = y \/ StrLess(y, x)
         IN  <<m>> \o sorted_descending(S \ {m})

RECURSIVE sorted(_)
sorted(S) ==
    IF S = {} THEN <<>>
    ELSE LET m == CHOOSE x \in S : \A y \in S : x = y \/ StrLess(x, y)
         IN  <<m>> \o sorted(S \ {m})

Min(a, b) == IF a < b THEN a ELSE b

\* lines 59-62: the dict groups; a member is the position in images of the
\* referenced raster (zip stops at the shorter list)
group_images(images, timestamps) ==
    LET n == Min(Len(images), Len(timestamps))
        keys == {period_key(timestamps[j]) : j \in 1..n}
    IN  [k \in keys |->
            SelectSeq([j \in 1..n |-> j],
                      LAMBDA j : period_key(timestamps[j]) = k)]

RECURSIVE FracSum(_)
FracSum(s) == IF s = <<>> THEN <<0, 1>> ELSE FracAdd(s[1], FracSum(Tail(s)))

\* variant of nanmean that counts a missing value as a member (skipna off
\* for the count): the sum of the present values over the group size
mean_over_all(pxs) ==
    LET present == SelectSeq(pxs, LAMBDA x : x # Missing)
    IN  IF present = <<>> THEN Missing
        ELSE FracDiv(FracSum(present), Len(pxs))

\* mean(dim="time", skipna=True) at one pixel
nanmean(pxs) ==
    LET present == SelectSeq(pxs, LAMBDA x : x # Missing)
    IN  IF present = <<>> THEN Missing
        ELSE FracDiv(FracSum(present), Len(present))

aggregate_mean(images) ==
    IF images = <<>> THEN Raise("Cannot aggregate empty image list")
    ELSE IF Len(images) = 1 THEN Ok(images[1])
    ELSE LET ref == images[1]
             float_images ==
                 [j \in DOMAIN images |->
                     [b \in DOMAIN images[j].values |->
                         [p \in DOMAIN images[j].values[b] |->
                             astype_float32(images[j].values[b][p])]]]
         IN  Ok(Raster([b \in DOMAIN ref.values |->
                           [p \in DOMAIN ref.values[b] |->
                               nanmean([j \in DOMAIN images |->
                                           float_images[j][b][p]])]],
                       ref.crs))

\* variant of composite_monthly without the length check of lines 51-54
composite_monthly_unchecked(images, timestamps) ==
    IF images = <<>>
    THEN Raise("images list must not be empty")
    ELSE LET groups == group_images(images, timestamps)
             sorted_keys == sorted(DOMAIN groups)
         IN  Ok([k \in 1..Len(sorted_keys) |->
                    LET key == sorted_keys[k]
                        members == [m \in 1..Len(groups[key]) |->
                                       images[groups[key][m]]]
                    IN  <<key, aggregate_mean(members).value[1]>>])

composite_monthly(images, timestamps) ==
    IF Len(images) # Len(timestamps)
    THEN Raise("images and timestamps must have the same length")
    ELSE IF images = <<>>
    THEN Raise("images list must not be empty")
    ELSE LET groups == group_images(images, timestamps)
             sorted_keys == sorted(DOMAIN groups)
         IN  Ok([k \in 1..Len(sorted_keys) |->
                    LET key == sorted_keys[k]
                        members == [m \in 1..Len(groups[key]) |->
                                       images[groups[key][m]]]
                    IN  <<key, aggregate_mean(members).value[1]>>])

\* no to_cog call is running
NoCog ==
    [pc |-> "idle", temp_path |-> None, overview_levels |-> None,
     error |-> None, output |-> None, reopen |-> None]

\* no request is in flight at the processing endpoints and no record of the
\* task was created
NoRequest ==
    [pc |-> "idle", task |-> None, batch_status |-> None, response |-> None,
     count |-> 0]

NoApi ==
    [created |-> FALSE, submit |-> NoRequest, poll |-> NoRequest,
     cancel |-> NoRequest]

\* no job was submitted to the batch queue
NoBatch ==
    [status |-> "NOT_FOUND", attempts |-> 0, attempt |-> 0, terminated |-> FALSE]

\* no cleanup_expired_tasks call is running
NoSweep ==
    [pc |-> "idle", table |-> <<>>, present |-> {}, cutoff_date |-> None,
     deleted_count |-> 0, last_key |-> None, tasks |-> <<>>, k |-> 0,
     pages |-> 0, listed |-> {}, succeeded |-> {}, failed |-> {},
     list_failed |-> FALSE]

ServicesIdle ==
    /\ api = NoApi
    /\ batch = NoBatch
    /\ sweep = NoSweep

\* ---------------------------------------------------------- idle batch job
\* The state of a process that runs no batch job (the direct-call
\* specifications below hold it fixed).
NoParams ==
    [task_type |-> "none", image_urls |-> <<>>, image_timestamps |-> <<>>,
     aoi |-> "absent", satellite |-> "sentinel-2", apply_cloud_mask |-> FALSE,
     qa_band_urls |-> <<>>, indices |-> <<>>, band_urls |-> {}]

NoTask ==
    [status |-> "queued", progress |-> 0, batch_job_id |-> None,
     batch_job_status |-> None, started_at |-> None, completed_at |-> None,
     result |-> None, error |-> None]

JobIdle ==
    /\ pc = "idle"
    /\ params = NoParams
    /\ i = 0
    /\ clipped_images = <<>>
    /\ image_outcome = <<>>
    /\ composites = <<>>
    /\ bands_data = {}
    /\ output_files = <<>>
    /\ result = None
    /\ raised = None
    /\ reports = <<>>
    /\ task = NoTask
    /\ started_at_set = FALSE
    /\ temp_dir = [exists |-> FALSE, files |-> {}]
    /\ s3_objects = {}
    /\ exit_code = None

\* --------------------------------------- TaskRepository.update_task_status
\* model_dump exists on a ProcessingResult, not on a dict
HasModelDump(r) == r.kind = "ProcessingResult"

\* Returns the record after the call and whether the call raised.  The task
\* store is reachable and holds the record (get_task and update_item
\* succeed); the call raises when result.model_dump() does (line 232), and
\* the handlers of lines 259-265 turn that into DatabaseConnectionError.
TaskRepository_update_task_status(t, kw) ==
    IF kw.result # None /\ ~HasModelDump(kw.result[1])
    THEN [raised |-> TRUE, task |-> t]
    ELSE [raised |-> FALSE,
          task |-> [status |-> kw.status,
                    progress |-> IF kw.progress # None THEN kw.progress[1]
                                 ELSE t.progress,
                    batch_job_id |-> IF kw.batch_job_id # None THEN kw.batch_job_id
                                     ELSE t.batch_job_id,
                    batch_job_status |-> IF kw.batch_job_status # None
                                         THEN kw.batch_job_status
                                         ELSE t.batch_job_status,
                    started_at |-> IF kw.started_at # None THEN kw.started_at
                                   ELSE t.started_at,
                    completed_at |-> IF kw.completed_at # None THEN kw.completed_at
                                     ELSE t.completed_at,
                    result |-> IF kw.result # None THEN Some(kw.result[1].value)
                               ELSE t.result,
                    error |-> IF kw.error # None THEN kw.error ELSE t.error]]

\* lines 209-211: the dict built from the ProcessingResult
result_as_dict(res) == [kind |-> "dict", value |-> res.value]

\* --------------------------------------- BatchProcessor.update_task_status
\* st is [task, started_at_set, reports].  reports collects the progress
\* values of the calls, whether or not the write succeeds; the except clause
\* of lines 219-221 swallows what the repository raises.
update_task_status(st, status, progress, res, error) ==
    LET kw == [status |-> status,
               progress |-> progress,
               batch_job_id |-> None,
               batch_job_status |-> None,
               started_at |-> IF status = "running" /\ ~st.started_at_set
                              THEN Some("now") ELSE None,
               completed_at |-> IF status \in {"completed", "failed"}
                                THEN Some("now") ELSE None,
               result |-> IF res # None THEN Some(result_as_dict(res[1])) ELSE None,
               error |-> IF error # None /\ error[1] # <<>> THEN error ELSE None]
        r == TaskRepository_update_task_status(st.task, kw)
    IN  [task |-> r.task,
         started_at_set |-> st.started_at_set \/ status = "running",
         reports |-> IF progress # None THEN Append(st.reports, progress[1])
                     ELSE st.reports]

Status == [task |-> task, started_at_set |-> started_at_set, reports |-> reports]

SetStatus(st) ==
    /\ task' = st.task
    /\ started_at_set' = st.started_at_set
    /\ reports' = st.reports

\* an exception leaves the try block of run (line 622)
Throw(msg) ==
    /\ raised' = Some(msg)
    /\ pc' = "except"

\* ------------------------------------------------------ batch job requests
JobTimestamps == {[year |-> 2024, month |-> 1], [year |-> 2024, month |-> 2]}

JobSatellites == {"sentinel-2", "landsat-8", "sentinel-1"}

IndexNames == {"NDVI", "SAVI", "EVI", "VGI", "NDWI"}

band_names == <<"red", "nir", "green", "blue">>

Range(s) == {s[k] : k \in DOMAIN s}

CompositeRequest(n, ts, a, s, m, q) ==
    [task_type |-> "composite", image_urls |-> [j \in 1..n |-> j],
     image_timestamps |-> ts, aoi |-> a, satellite |-> s,
     apply_cloud_mask |-> m, qa_band_urls |-> q, indices |-> <<>>,
     band_urls |-> {}]

\* well-formed composite requests: with and without cloud masking, with a
\* quality band reference (TRUE) or an empty one (FALSE) for a prefix of the
\* images
ValidCompositeRequests ==
    UNION {{CompositeRequest(n, ts, "polygon", "sentinel-2", FALSE, <<>>) :
               ts \in [1..n -> JobTimestamps]}
           \cup {CompositeRequest(n, ts, "polygon", s, TRUE, q) :
                    ts \in [1..n -> JobTimestamps], s \in JobSatellites,
                    q \in UNION {[1..k -> BOOLEAN] : k \in 0..n}} :
           n \in 1..MaxImages}

\* requests that lines 467-474 reject
InvalidCompositeRequests ==
    {CompositeRequest(0, <<>>, "polygon", "sentinel-2", FALSE, <<>>),
     CompositeRequest(1, <<>>, "polygon", "sentinel-2", FALSE, <<>>),
     CompositeRequest(1, <<[year |-> 2024, month |-> 1]>>, "absent",
                      "sentinel-2", FALSE, <<>>),
     CompositeRequest(2, <<[year |-> 2024, month |-> 1]>>, "polygon",
                      "sentinel-2", FALSE, <<>>)}

IndicesRequests ==
    {[task_type |-> "indices", image_urls |-> <<>>, image_timestamps |-> <<>>,
      aoi |-> a, satellite |-> "sentinel-2", apply_cloud_mask |-> FALSE,
      qa_band_urls |-> <<>>, indices |-> ix, band_urls |-> bu] :
        a \in {"polygon", "absent"},
        ix \in UNION {[1..k -> IndexNames] : k \in 0..MaxIndices},
        bu \in SUBSET Range(band_names)}

OtherRequests == {[NoParams EXCEPT !.task_type = "download"]}

Init ==
    /\ pc = "start"
    /\ params \in ValidCompositeRequests \cup InvalidCompositeRequests
                    \cup IndicesRequests \cup OtherRequests
    /\ i = 0
    /\ clipped_images = <<>>
    /\ image_outcome = <<>>
    /\ composites = <<>>
    /\ bands_data = {}
    /\ output_files = <<>>
    /\ result = None
    /\ raised = None
    /\ reports = <<>>
    /\ task = NoTask
    /\ started_at_set = FALSE
    /\ temp_dir = [exists |-> TRUE, files |-> {}]
    /\ s3_objects = {}
    /\ exit_code = None
    /\ call = [fn |-> "run"]
    /\ ret = None
    /\ cog = NoCog
    /\ ServicesIdle

\* ------------------------------------------------------- BatchProcessor.run
\* lines 587-605: the first status update and the dispatch on the task type
RunStart ==
    /\ pc = "start"
    /\ SetStatus(update_task_status(Status, "running", Some(0), None, None))
    /\ IF params.task_type = "indices"
       THEN pc' = "indices" /\ UNCHANGED raised
       ELSE IF params.task_type = "composite"
       THEN pc' = "composite" /\ UNCHANGED raised
       ELSE Throw("Unsupported task type")
    /\ UNCHANGED <<params, i, clipped_images, image_outcome, composites,
                   bands_data, output_files, result, temp_dir, s3_objects,
                   exit_code, call, ret, cog,
                   serviceVars>>

\* ----------------------------- BatchProcessor.process_temporal_composite
\* the image behind image_urls[j], read and clipped: one band, one pixel
JobImage(j) == Raster(<<<<<<10 * j, 1>>>>>>, "EPSG:32650")

\* quality values a quality band of the job can hold at that pixel
JobQAValues == {4, 8}

\* variant of read_progress that spreads the read phase over 50 points
read_progress_wide(k, total_images) == 5 + (k * 50) \div total_images

\* line 504 and line 553: 5 + int((i + 1) / total_images * 40) and
\* 70 + int((idx + 1) / len(composites) * 25); for every list length up to
\* 399 the float expression equals the integer quotient used here
read_progress(k, total_images) == 5 + (k * 40) \div total_images

save_progress(k, periods) == 70 + (k * 25) \div periods

\* lines 459-484: parameter checks and the first progress report
CompositeBegin ==
    /\ pc = "composite"
    /\ IF params.image_urls = <<>>
       THEN Throw("image_urls is required for composite task")
            /\ UNCHANGED <<i, image_outcome, task, started_at_set, reports>>
       ELSE IF params.image_timestamps = <<>>
       THEN Throw("image_timestamps is required for composite task")
            /\ UNCHANGED <<i, image_outcome, task, started_at_set, reports>>
       ELSE IF params.aoi = "absent"
       THEN Throw("AOI is required for composite task")
            /\ UNCHANGED <<i, image_outcome, task, started_at_set, reports>>
       ELSE IF Len(params.image_urls) # Len(params.image_timestamps)
       THEN Throw("image_urls and image_timestamps must have the same length")
            /\ UNCHANGED <<i, image_outcome, task, started_at_set, reports>>
       ELSE /\ SetStatus(update_task_status(Status, "running", Some(5), None, None))
            /\ i' = 0
            /\ image_outcome' = [j \in DOMAIN params.image_urls |-> "pending"]
            /\ pc' = "read_image"
            /\ UNCHANGED raised
    /\ UNCHANGED <<params, clipped_images, composites, bands_data, output_files,
                   result, temp_dir, s3_objects, exit_code, call, ret, cog,
                   serviceVars>>

\* line 493: is the cloud mask branch taken for the image at 0-based index k
mask_requested(k) ==
    /\ params.apply_cloud_mask
    /\ k < Len(params.qa_band_urls)
    /\ params.qa_band_urls[k + 1]

\* lines 486-505, one iteration.  outcome is what the reads and the clips
\* of this image do: "ok", "read_error" (read_cog_from_url or clip_to_aoi of
\* the image raises) or "qa_error" (the same for its quality band); qa is the
\* quality value read.  Whatever raises inside the try is caught at line
\* 500 and the image is skipped without a progress report.
ReadImage ==
    /\ pc = "read_image"
    /\ i < Len(params.image_urls)
    /\ \E outcome \in {"ok", "read_error", "qa_error"}, qa \in JobQAValues :
          LET clipped == JobImage(i + 1)
              masking == mask_requested(i)
              masked == apply_cloud_mask(clipped, Raster(<<<<qa>>>>, "EPSG:32650"),
                                         params.satellite)
              kept == /\ outcome # "read_error"
                      /\ masking => (outcome = "ok" /\ masked.ok)
          IN  /\ (outcome = "qa_error") => masking
              /\ (~masking \/ outcome # "ok") => qa = 4
              /\ IF kept
                 THEN /\ clipped_images' =
                            Append(clipped_images,
                                   IF masking THEN masked.value[1] ELSE clipped)
                      /\ image_outcome' =
                            [image_outcome EXCEPT ![i + 1] =
                                IF masking THEN "masked" ELSE "read"]
                      /\ SetStatus(update_task_status(Status, "running",
                            Some(read_progress(i + 1, Len(params.image_urls))),
                            None, None))
                 ELSE /\ image_outcome' = [image_outcome EXCEPT ![i + 1] = "skipped"]
                      /\ UNCHANGED <<clipped_images, task, started_at_set, reports>>
    /\ i' = i + 1
    /\ UNCHANGED <<pc, params, composites, bands_data, output_files, result,
                   raised, temp_dir, s3_objects, exit_code, call, ret, cog,
                   serviceVars>>

\* variant of none_read that also gives up when only some image is missing
some_not_read(clipped, total_images) == Len(clipped) < total_images

\* line 507: not clipped_images
none_read(clipped, total_images) == clipped = <<>>

\* lines 507-520: after the loop
ReadDone ==
    /\ pc = "read_image"
    /\ i = Len(params.image_urls)
    /\ IF none_read(clipped_images, Len(params.image_urls))
       THEN /\ Throw("No images could be read successfully")
            /\ UNCHANGED <<i, composites, task, started_at_set, reports>>
       ELSE LET s1 == update_task_status(Status, "running", Some(50), None, None)
                r == composite_monthly(clipped_images,
                        SubSeq(params.image_timestamps, 1, Len(clipped_images)))
            IN  IF ~r.ok
                THEN /\ Throw(r.error)
                     /\ SetStatus(s1)
                     /\ UNCHANGED <<i, composites>>
                ELSE /\ composites' = r.value[1]
                     /\ SetStatus(update_task_status(s1, "running", Some(70),
                                                     None, None))
                     /\ i' = 0
                     /\ pc' = "save"
                     /\ UNCHANGED raised
    /\ UNCHANGED <<params, clipped_images, image_outcome, bands_data,
                   output_files, result, temp_dir, s3_objects, exit_code,
                   call, ret, cog,
                   serviceVars>>

\* What encoding and uploading one output does (to_cog, upload_file,
\* generate_presigned_url; lines 528-537 and 368-397).  to_cog removes its
\* own intermediate file on both paths; when it fails after the output file
\* was written, that file stays in the temporary directory.
EncodeOutcomes ==
    {"ok", "to_cog_write_error", "to_cog_validate_error", "upload_error",
     "presign_error"}

FilesAfter(files, name, outcome) ==
    IF outcome = "to_cog_write_error" THEN files ELSE files \cup {name}

\* variant of ObjectsAfter that rolls the earlier uploads back when the
\* encoding of an output fails
ObjectsAfter_rollback(objects, key, outcome) ==
    IF outcome \in {"ok", "presign_error"} THEN objects \cup {key}
    ELSE IF outcome \in {"to_cog_write_error", "to_cog_validate_error"} THEN {}
    ELSE objects

ObjectsAfter(objects, key, outcome) ==
    IF outcome \in {"ok", "presign_error"} THEN objects \cup {key} ELSE objects

EncodeError(outcome) ==
    IF outcome \in {"to_cog_write_error", "to_cog_validate_error"}
    THEN "Failed to save as COG"
    ELSE IF outcome = "upload_error" THEN "Failed to upload file"
    ELSE "Failed to generate presigned URL"

s3_key(output_filename) == <<"results", "TASK_ID", output_filename>>

\* lines 522-554, one iteration
SaveComposite ==
    /\ pc = "save"
    /\ i < Len(composites)
    /\ \E outcome \in EncodeOutcomes :
          LET period_label == composites[i + 1][1]
              output_filename == <<"composite_", period_label, ".tif">>
          IN  /\ temp_dir' = [temp_dir EXCEPT
                                !.files = FilesAfter(@, output_filename, outcome)]
              /\ s3_objects' = ObjectsAfter(s3_objects, s3_key(output_filename),
                                            outcome)
              /\ IF outcome = "ok"
                 THEN /\ output_files' =
                            Append(output_files,
                                   [name |-> output_filename,
                                    s3_key |-> s3_key(output_filename),
                                    index |-> <<"composite_", period_label>>])
                      /\ SetStatus(update_task_status(Status, "running",
                            Some(save_progress(i + 1, Len(composites))),
                            None, None))
                      /\ i' = i + 1
                      /\ UNCHANGED <<pc, raised>>
                 ELSE /\ Throw(EncodeError(outcome))
                      /\ UNCHANGED <<output_files, task, started_at_set,
                                     reports, i>>
    /\ UNCHANGED <<params, clipped_images, image_outcome, composites,
                   bands_data, result, exit_code, call, ret, cog,
                   serviceVars>>

\* lines 556-569: the ProcessingResult of a composite job
CompositeDone ==
    /\ pc = "save"
    /\ i = Len(composites)
    /\ result' = Some([kind |-> "ProcessingResult",
                       value |->
                         [output_files |-> output_files,
                          metadata |->
                            [composite_mode |-> "monthly",
                             satellite |-> params.satellite,
                             total_input_images |-> Len(params.image_urls),
                             successful_images |-> Len(clipped_images),
                             periods |-> [k \in DOMAIN composites |->
                                             composites[k][1]],
                             cloud_mask_applied |-> params.apply_cloud_mask]]])
    /\ pc' = "returned"
    /\ UNCHANGED <<params, i, clipped_images, image_outcome, composites,
                   bands_data, output_files, raised, reports, task,
                   started_at_set, temp_dir, s3_objects, exit_code, call, ret, cog,
                   serviceVars>>

\* ----------------------------- BatchProcessor.process_vegetation_indices
\* the bands each index needs (lines 298-332); an unknown name has no entry
required_bands(index_name) ==
    IF index_name \in {"NDVI", "SAVI"} THEN {"nir", "red"}
    ELSE IF index_name = "EVI" THEN {"nir", "red", "blue"}
    ELSE {"green", "red"}

known_indices == {"NDVI", "SAVI", "EVI", "VGI"}

\* line 412: 40 + int((i + 1) / len(indices) * 50)
index_progress(k, total) == 40 + (k * 50) \div total

\* lines 236-253: parameter checks and the first progress report
IndicesBegin ==
    /\ pc = "indices"
    /\ IF params.indices = <<>>
       THEN Throw("No indices specified")
            /\ UNCHANGED <<task, started_at_set, reports>>
       ELSE IF params.aoi = "absent"
       THEN Throw("AOI not specified")
            /\ UNCHANGED <<task, started_at_set, reports>>
       ELSE IF params.band_urls = {}
       THEN Throw("Band URLs not specified")
            /\ UNCHANGED <<task, started_at_set, reports>>
       ELSE /\ SetStatus(update_task_status(Status, "running", Some(10), None, None))
            /\ pc' = "read_bands"
            /\ UNCHANGED raised
    /\ UNCHANGED <<params, i, clipped_images, image_outcome, composites,
                   bands_data, output_files, result, temp_dir, s3_objects,
                   exit_code, call, ret, cog,
                   serviceVars>>

\* lines 255-287: the loop over band_names; a read or clip that raises is
\* re-raised (line 284), otherwise every referenced band is held
ReadBands ==
    /\ pc = "read_bands"
    /\ \E outcome \in {"ok", "read_error"} :
          IF outcome = "ok"
          THEN /\ bands_data' = {b \in Range(band_names) : b \in params.band_urls}
               /\ SetStatus(update_task_status(Status, "running", Some(40),
                                               None, None))
               /\ i' = 0
               /\ pc' = "index"
               /\ UNCHANGED raised
          ELSE /\ Throw("Failed to read COG from URL")
               /\ UNCHANGED <<bands_data, i, task, started_at_set, reports>>
    /\ UNCHANGED <<params, clipped_images, image_outcome, composites,
                   output_files, result, temp_dir, s3_objects, exit_code,
                   call, ret, cog,
                   serviceVars>>

\* lines 293-417, one iteration: the name and band checks, then the
\* encoding and upload of the index
IndexStep ==
    /\ pc = "index"
    /\ i < Len(params.indices)
    /\ LET index_name == params.indices[i + 1]
           output_filename == <<"IMAGE_ID", "_", index_name, ".tif">>
       IN  IF index_name \notin known_indices
           THEN /\ Throw(<<"Unknown index: ", index_name>>)
                /\ UNCHANGED <<i, output_files, task, started_at_set, reports,
                               temp_dir, s3_objects>>
           ELSE IF ~(required_bands(index_name) \subseteq bands_data)
           THEN /\ Throw(<<index_name, " requires bands">>)
                /\ UNCHANGED <<i, output_files, task, started_at_set, reports,
                               temp_dir, s3_objects>>
           ELSE \E outcome \in EncodeOutcomes :
                   /\ temp_dir' = [temp_dir EXCEPT
                                     !.files = FilesAfter(@, output_filename, outcome)]
                   /\ s3_objects' = ObjectsAfter(s3_objects,
                                                 s3_key(output_filename), outcome)
                   /\ IF outcome = "ok"
                      THEN /\ output_files' =
                                 Append(output_files,
                                        [name |-> output_filename,
                                         s3_key |-> s3_key(output_filename),
                                         index |-> index_name])
                           /\ SetStatus(update_task_status(Status, "running",
                                 Some(index_progress(i + 1, Len(params.indices))),
                                 None, None))
                           /\ i' = i + 1
                           /\ UNCHANGED <<pc, raised>>
                      ELSE /\ Throw(EncodeError(outcome))
                           /\ UNCHANGED <<output_files, task, started_at_set,
                                          reports, i>>
    /\ UNCHANGED <<params, clipped_images, image_outcome, composites,
                   bands_data, result, exit_code, call, ret, cog,
                   serviceVars>>

\* lines 419-431: the ProcessingResult of an indices job
IndicesDone ==
    /\ pc = "index"
    /\ i = Len(params.indices)
    /\ result' = Some([kind |-> "ProcessingResult",
                       value |-> [output_files |-> output_files,
                                  metadata |-> [image_id |-> "IMAGE_ID",
                                                indices |-> params.indices]]])
    /\ pc' = "returned"
    /\ UNCHANGED <<params, i, clipped_images, image_outcome, composites,
                   bands_data, output_files, raised, reports, task,
                   started_at_set, temp_dir, s3_objects, exit_code, call, ret, cog,
                   serviceVars>>

\* ------------------------------------------------- BatchProcessor.run, end
\* lines 607-620: the final status update and the return value 0
RunComplete ==
    /\ pc = "returned"
    /\ SetStatus(update_task_status(Status, "completed", Some(100), result, None))
    /\ exit_code' = Some(0)
    /\ pc' = "finally"
    /\ UNCHANGED <<params, i, clipped_images, image_outcome, composites,
                   bands_data, output_files, result, raised, temp_dir,
                   s3_objects, call, ret, cog,
                   serviceVars>>

\* lines 622-631: the handler of every exception of the try block
RunExcept ==
    /\ pc = "except"
    /\ LET error_msg == <<"Task failed: ", raised[1]>>
       IN  SetStatus(update_task_status(Status, "failed", None, None,
                                        Some(error_msg)))
    /\ exit_code' = Some(1)
    /\ pc' = "finally"
    /\ UNCHANGED <<params, i, clipped_images, image_outcome, composites,
                   bands_data, output_files, result, raised, temp_dir,
                   s3_objects, call, ret, cog,
                   serviceVars>>

\* variant of cleanup that removes the directory on the success path only
cleanup_on_success(dir, code) ==
    IF dir.exists /\ code = Some(0) THEN [exists |-> FALSE, files |-> {}] ELSE dir

\* BatchProcessor.cleanup, lines 571-579, called from the finally clause of
\* run: rmtree removes the directory and everything in it
cleanup(dir, code) ==
    IF dir.exists THEN [exists |-> FALSE, files |-> {}] ELSE dir

\* lines 633-635, then run returns exit_code
Cleanup ==
    /\ pc = "finally"
    /\ temp_dir' = cleanup(temp_dir, exit_code)
    /\ pc' = "done"
    /\ UNCHANGED <<params, i, clipped_images, image_outcome, composites,
                   bands_data, output_files, result, raised, reports, task,
                   started_at_set, s3_objects, exit_code, call, ret, cog,
                   serviceVars>>

Next ==
    \/ RunStart
    \/ CompositeBegin
    \/ ReadImage
    \/ ReadDone
    \/ SaveComposite
    \/ CompositeDone
    \/ IndicesBegin
    \/ ReadBands
    \/ IndexStep
    \/ IndicesDone
    \/ RunComplete
    \/ RunExcept
    \/ Cleanup

Spec == Init /\ [][Next]_vars

\* ------------------------------------------- direct call: apply_cloud_mask
\* Quality values: every value 0..MaxQA, two QA_PIXEL values met in practice
\* (21824 clear, 22280 cloud) and two values at the 16-bit boundary.
QAValues == 0..MaxQA \cup {21824, 22280, 2^16 - 1, 2^16 + 8}

DataValues == {7, 9}

MaskSatellites == {"sentinel-2", "landsat-8", "sentinel-1"}

\* two-band rasters over NPix pixels, every pixel present and distinct
MaskRasters ==
    {Raster(<<[p \in 1..NPix |-> <<v + p, 1>>],
              [p \in 1..NPix |-> <<10 * v + p, 1>>]>>, "EPSG:32650") :
        v \in DataValues}

QARasters == {Raster(<<q>>, "EPSG:32650") : q \in [1..NPix -> QAValues]}

InitMask ==
    /\ JobIdle
    /\ call \in {[fn |-> "apply_cloud_mask", data |-> d, qa_band |-> q,
                  satellite |-> s] :
                    d \in MaskRasters, q \in QARasters, s \in MaskSatellites}
    /\ ret = None
    /\ cog = NoCog
    /\ ServicesIdle

ApplyCloudMask ==
    /\ call.fn = "apply_cloud_mask"
    /\ ret = None
    /\ ret' = Some(apply_cloud_mask(call.data, call.qa_band, call.satellite))
    /\ UNCHANGED <<jobVars, call, cog, serviceVars>>

NextMask == ApplyCloudMask

SpecMask == InitMask /\ [][NextMask]_vars

\* ------------------------------ apply_cloud_mask on the arrays of the call
\* The arrays of a call are objects.  heap maps the name of an object to the
\* bands it holds: "data" is the array of the caller, "masked" the array the
\* call creates.
FrameValues == {<<7, 1>>, <<2^24 + 1, 1>>, Missing}

FrameBands == [1..NPix -> FrameValues]

\* rasters of one band (a 2D array) and of two bands
FrameRasters ==
    {Raster(<<b>>, "EPSG:32650") : b \in FrameBands}
        \cup {Raster(<<b, c>>, "EPSG:32650") : b \in FrameBands, c \in FrameBands}

\* quality values: 4 is clear for both products, 8 is flagged for both, 0 is
\* flagged in the scene classification only
FrameQARasters == {Raster(<<q>>, "EPSG:32650") : q \in [1..NPix -> {0, 4, 8}]}

\* variant of masked_array that works on the array of the caller
masked_array_in_place(heap) == [heap |-> heap, ref |-> "data"]

\* line 467, data.astype(np.float32).copy(): a new array that holds the
\* converted values
masked_array(heap) ==
    [heap |-> ("masked" :> [b \in DOMAIN heap["data"] |->
                              [p \in DOMAIN heap["data"][b] |->
                                  astype_float32(heap["data"][b][p])]]) @@ heap,
     ref |-> "masked"]

\* lines 469-475: array[i][cloud_mask] = np.nan for every band i of the
\* array (the one band of a 2D array)
assign_nan(heap, ref, m) ==
    LET old == heap[ref]
    IN  [heap EXCEPT ![ref] =
            [b \in DOMAIN old |->
                [p \in DOMAIN old[b] |-> IF m[p] THEN Missing ELSE old[b][p]]]]

\* apply_cloud_mask, lines 402-477: the heap after the call and the name of
\* the array it returns
apply_cloud_mask_arrays(heap, qa_band, satellite) ==
    IF satellite \notin SupportedSatellites
    THEN [ok |-> FALSE, heap |-> heap, ref |-> "data"]
    ELSE LET m == cloud_mask(qa_band.values[1], satellite)
             a == masked_array(heap)
         IN  [ok |-> TRUE, heap |-> assign_nan(a.heap, a.ref, m), ref |-> a.ref]

InitFrame ==
    /\ JobIdle
    /\ call \in {[fn |-> "apply_cloud_mask_arrays", data |-> d, given |-> d,
                  qa_band |-> q, satellite |-> s] :
                    d \in FrameRasters, q \in FrameQARasters, s \in MaskSatellites}
    /\ ret = None
    /\ cog = NoCog
    /\ ServicesIdle

\* the call; given keeps the array as the caller passed it
ApplyCloudMaskArrays ==
    /\ call.fn = "apply_cloud_mask_arrays"
    /\ ret = None
    /\ LET r == apply_cloud_mask_arrays("data" :> call.data.values, call.qa_band,
                                        call.satellite)
       IN  /\ call' = [call EXCEPT !.data = Raster(r.heap["data"], call.data.crs)]
           /\ ret' = Some(IF r.ok THEN Ok(Raster(r.heap[r.ref], call.data.crs))
                          ELSE Raise("Cloud masking not supported for satellite"))
    /\ UNCHANGED <<jobVars, cog, serviceVars>>

NextFrame == ApplyCloudMaskArrays

SpecFrame == InitFrame /\ [][NextFrame]_vars

\* ------------------------------------------ direct call: composite_monthly
Timestamps ==
    {[year |-> 2023, month |-> 12], [year |-> 2024, month |-> 2],
     [year |-> 2024, month |-> 10]}

\* The image at position j of a call: the pixels in gone are missing (NaN),
\* every other pixel holds a value that differs by position and by pixel.
StackRaster(j, gone) ==
    Raster(<<[p \in 1..NPix |-> IF p \in gone THEN Missing ELSE <<3 * j + p, 1>>]>>,
           "EPSG:32650")

\* per image: no pixel missing, the first, the last, or every pixel missing
GonePatterns == {{}, {1}, {NPix}, 1..NPix}

StackImages ==
    UNION {{[j \in 1..k |-> StackRaster(j, gone[j])] :
               gone \in [1..k -> GonePatterns]} : k \in 0..MaxStack}

StackTimestamps == UNION {[1..k -> Timestamps] : k \in 0..MaxStack}

\* lists of equal and of unequal length
InitComposite ==
    /\ JobIdle
    /\ call \in {[fn |-> "composite_monthly", images |-> im, timestamps |-> ts] :
                    im \in StackImages, ts \in StackTimestamps}
    /\ ret = None
    /\ cog = NoCog
    /\ ServicesIdle

CompositeMonthly ==
    /\ call.fn = "composite_monthly"
    /\ ret = None
    /\ ret' = Some(composite_monthly(call.images, call.timestamps))
    /\ UNCHANGED <<jobVars, call, cog, serviceVars>>

NextComposite == CompositeMonthly

SpecComposite == InitComposite /\ [][NextComposite]_vars

\* ------------------------------------------ numpy arithmetic on band arrays
\* A band array (np.ndarray) is [dtype |-> "float64" or "uint16", values |->
\* the pixels]; a float64 pixel is Missing (NaN), a fraction, or an infinity
\* <<1, 0>> / <<-1, 0>>; a uint16 pixel is <<n, 1>> with n in 0..2^16 - 1.
\* A Python scalar is [dtype |-> "pyint" or "pyfloat", value |-> fraction].
NdArray(dtype, values) == [dtype |-> dtype, values |-> values]

PyInt(n) == [dtype |-> "pyint", value |-> <<n, 1>>]

PyFloat(n, d) == [dtype |-> "pyfloat", value |-> Frac(n, d)]

IsArray(x) == x.dtype \in {"float64", "uint16"}

\* the dtype of a binary operation: two uint16 arrays stay uint16, a Python
\* int leaves an array's dtype alone, a Python float makes it float64
result_type(a, b) ==
    IF IsArray(a) /\ IsArray(b)
    THEN IF a.dtype = "uint16" /\ b.dtype = "uint16" THEN "uint16" ELSE "float64"
    ELSE IF IsArray(a)
    THEN IF a.dtype = "uint16" /\ b.dtype = "pyint" THEN "uint16" ELSE "float64"
    ELSE IF IsArray(b)
    THEN IF b.dtype = "uint16" /\ a.dtype = "pyint" THEN "uint16" ELSE "float64"
    ELSE IF a.dtype = "pyint" /\ b.dtype = "pyint" THEN "pyint" ELSE "pyfloat"

At(x, p) == IF IsArray(x) THEN x.values[p] ELSE x.value

\* unsigned 16-bit results wrap around
cast(dtype, px) == IF dtype = "uint16" THEN <<px[1] % 2^16, 1>> ELSE px

PxAdd(x, y) == IF x = Missing \/ y = Missing THEN Missing ELSE FracAdd(x, y)

PxSub(x, y) ==
    IF x = Missing \/ y = Missing THEN Missing ELSE FracAdd(x, <<-y[1], y[2]>>)

PxMul(x, y) ==
    IF x = Missing \/ y = Missing THEN Missing ELSE Frac(x[1] * y[1], x[2] * y[2])

\* IEEE division: x / 0 is NaN for x = 0 and an infinity otherwise
PxDiv(x, y) ==
    IF x = Missing \/ y = Missing THEN Missing
    ELSE IF y[1] = 0 THEN (IF x[1] = 0 THEN Missing
                           ELSE IF x[1] > 0 THEN <<1, 0>> ELSE <<-1, 0>>)
    ELSE IF y[1] > 0 THEN Frac(x[1] * y[2], x[2] * y[1])
    ELSE Frac(-(x[1] * y[2]), -(x[2] * y[1]))

\* the operators +, - and * on one pixel
PxOp(op, x, y) ==
    IF op = "+" THEN PxAdd(x, y)
    ELSE IF op = "-" THEN PxSub(x, y)
    ELSE PxMul(x, y)

elementwise(op, a, b) ==
    LET dt == result_type(a, b)
    IN  IF ~IsArray(a) /\ ~IsArray(b)
        THEN [dtype |-> dt, value |-> PxOp(op, a.value, b.value)]
        ELSE LET n == IF IsArray(a) THEN Len(a.values) ELSE Len(b.values)
             IN  NdArray(dt, [p \in 1..n |-> cast(dt, PxOp(op, At(a, p), At(b, p)))])

np_add(a, b) == elementwise("+", a, b)

np_subtract(a, b) == elementwise("-", a, b)

np_multiply(a, b) == elementwise("*", a, b)

\* the / of two arrays is float64 whatever their dtypes
np_true_divide(a, b) ==
    NdArray("float64", [p \in DOMAIN a.values |-> PxDiv(At(a, p), At(b, p))])

\* array != 0: NaN != 0 is True
np_not_equal_0(a) == [p \in DOMAIN a.values |-> a.values[p] # <<0, 1>>]

\* np.where(condition, x, 0)
np_where_else_0(condition, x) ==
    NdArray("float64", [p \in DOMAIN condition |->
                           IF condition[p] THEN x.values[p] ELSE <<0, 1>>])

\* -------------------------------------------- VegetationIndexCalculator
calculate_ndvi(nir, red) ==
    LET denominator == np_add(nir, red)
    IN  Ok(np_where_else_0(np_not_equal_0(denominator),
                           np_true_divide(np_subtract(nir, red), denominator)))

\* variant of calculate_savi that always uses the default soil factor
calculate_savi_default_L(nir, red, L) ==
    LET L0 == PyFloat(1, 2)
        denominator == np_add(np_add(nir, red), L0)
    IN  Ok(np_where_else_0(np_not_equal_0(denominator),
              np_true_divide(np_multiply(np_add(PyInt(1), L0),
                                         np_subtract(nir, red)),
                             denominator)))

calculate_savi(nir, red, L) ==
    LET denominator == np_add(np_add(nir, red), L)
    IN  Ok(np_where_else_0(np_not_equal_0(denominator),
              np_true_divide(np_multiply(np_add(PyInt(1), L),
                                         np_subtract(nir, red)),
                             denominator)))

calculate_evi(nir, red, blue) ==
    LET denominator ==
            np_add(np_subtract(np_add(nir, np_multiply(PyInt(6), red)),
                               np_multiply(PyFloat(15, 2), blue)),
                   PyInt(1))
    IN  Ok(np_where_else_0(np_not_equal_0(denominator),
              np_true_divide(np_multiply(PyFloat(5, 2), np_subtract(nir, red)),
                             denominator)))

calculate_vgi(green, red) ==
    Ok(np_where_else_0(np_not_equal_0(red), np_true_divide(green, red)))

\* ---------------------------------------- direct calls: calculate_<index>
\* reflectances (also negative and missing ones) and 16-bit digital numbers
FloatValues == <<<<0, 1>>, <<1, 2>>, <<1, 1>>, <<-1, 2>>, <<1, 5>>, Missing>>

UintValues ==
    <<<<0, 1>>, <<1000, 1>>, <<2000, 1>>, <<10923, 1>>, <<32768, 1>>, <<65535, 1>>>>

BandValues(dtype) == IF dtype = "float64" THEN FloatValues ELSE UintValues

\* the band array whose pixels run through the values of its dtype from the
\* k-th on
BandArray(dtype, k) ==
    LET vs == BandValues(dtype)
    IN  NdArray(dtype, [p \in 1..NPix |-> vs[((k + p - 2) % Len(vs)) + 1]])

BandArrays(dtype) == {BandArray(dtype, k) : k \in 1..Len(BandValues(dtype))}

SoilFactors == {PyInt(0), PyFloat(0, 1), PyFloat(1, 2), PyFloat(1, 1)}

IndexCalls ==
    UNION {{[fn |-> "calculate_ndvi", nir |-> a, red |-> b] :
               a \in BandArrays(dt), b \in BandArrays(dt)}
           \cup {[fn |-> "calculate_savi", nir |-> a, red |-> b, L |-> l] :
                    a \in BandArrays(dt), b \in BandArrays(dt), l \in SoilFactors}
           \cup {[fn |-> "calculate_evi", nir |-> a, red |-> b, blue |-> c] :
                    a \in BandArrays(dt), b \in BandArrays(dt), c \in BandArrays(dt)}
           \cup {[fn |-> "calculate_vgi", green |-> a, red |-> b] :
                    a \in BandArrays(dt), b \in BandArrays(dt)} :
           dt \in {"float64", "uint16"}}

InitIndex ==
    /\ JobIdle
    /\ call \in IndexCalls
    /\ ret = None
    /\ cog = NoCog
    /\ ServicesIdle

CalculateNdvi ==
    /\ call.fn = "calculate_ndvi"
    /\ ret = None
    /\ ret' = Some(calculate_ndvi(call.nir, call.red))
    /\ UNCHANGED <<jobVars, call, cog, serviceVars>>

CalculateSavi ==
    /\ call.fn = "calculate_savi"
    /\ ret = None
    /\ ret' = Some(calculate_savi(call.nir, call.red, call.L))
    /\ UNCHANGED <<jobVars, call, cog, serviceVars>>

CalculateEvi ==
    /\ call.fn = "calculate_evi"
    /\ ret = None
    /\ ret' = Some(calculate_evi(call.nir, call.red, call.blue))
    /\ UNCHANGED <<jobVars, call, cog, serviceVars>>

CalculateVgi ==
    /\ call.fn = "calculate_vgi"
    /\ ret = None
    /\ ret' = Some(calculate_vgi(call.green, call.red))
    /\ UNCHANGED <<jobVars, call, cog, serviceVars>>

NextIndex ==
    \/ CalculateNdvi
    \/ CalculateSavi
    \/ CalculateEvi
    \/ CalculateVgi

SpecIndex == InitIndex /\ [][NextIndex]_vars

\* ------------------------------------------------ RasterProcessor.clip_to_aoi
\* Coordinates are integers in the raster's reference system, two units to a
\* pixel.  A raster to clip is one row of pixels: [values, crs, left], pixel p
\* covers x in left + 2(p-1) .. left + 2p and y in 0 .. 2.  A geometry is an
\* axis-aligned box (which may have no width or no height: a line or a
\* point) or EmptyGeometry.
Box(minx, miny, maxx, maxy) ==
    [minx |-> minx, miny |-> miny, maxx |-> maxx, maxy |-> maxy]

EmptyGeometry == [empty |-> TRUE]

Max(a, b) == IF a > b THEN a ELSE b

\* line 169-170: the footprint of the raster
rio_bounds(data) == Box(data.left, 0, data.left + 2 * Len(data.values[1]), 2)

\* shapely's intersection of two boxes: the common points, a polygon, a line
\* or a point; empty only when the boxes have no point in common
intersection(g, b) ==
    LET minx == Max(g.minx, b.minx)
        miny == Max(g.miny, b.miny)
        maxx == Min(g.maxx, b.maxx)
        maxy == Min(g.maxy, b.maxy)
    IN  IF minx > maxx \/ miny > maxy THEN EmptyGeometry
        ELSE Box(minx, miny, maxx, maxy)

is_empty(g) == g = EmptyGeometry

area(g) == IF is_empty(g) THEN 0 ELSE (g.maxx - g.minx) * (g.maxy - g.miny)

pixel_box(data, p) == Box(data.left + 2 * (p - 1), 0, data.left + 2 * p, 2)

\* the pixels data.rio.clip selects for a geometry with area: with
\* all_touched every pixel part of which the geometry covers, without it the
\* pixels whose centre the geometry covers
covered(data, p, g, all_touched) ==
    LET b == pixel_box(data, p)
    IN  IF all_touched
        THEN area(intersection(g, b)) > 0
        ELSE /\ g.minx <= b.minx + 1 /\ b.minx + 1 <= g.maxx
             /\ g.miny <= 1 /\ 1 <= g.maxy

\* a pixel whose box has a point in common with the geometry
touched(data, p, g) == ~is_empty(intersection(g, pixel_box(data, p)))

\* data.rio.clip([geometry], crs, drop=True, all_touched).  For a geometry
\* without area the rasterizer either burns the pixels the line or point
\* touches or burns none (zero_area says which); with no pixel selected
\* rioxarray raises NoDataInBounds.
rio_clip(data, g, all_touched, zero_area) ==
    LET n == Len(data.values[1])
        sel == IF area(g) > 0
               THEN {p \in 1..n : covered(data, p, g, all_touched)}
               ELSE IF zero_area = "burned"
               THEN {p \in 1..n : touched(data, p, g)}
               ELSE {}
    IN  IF sel = {} THEN Raise("No data found in bounds")
        ELSE LET lo == CHOOSE p \in sel : \A q \in sel : p <= q
                 hi == CHOOSE p \in sel : \A q \in sel : q <= p
             IN  Ok([values |->
                        [b \in DOMAIN data.values |->
                            [k \in 1..(hi - lo + 1) |->
                                IF (lo + k - 1) \in sel
                                THEN data.values[b][lo + k - 1] ELSE Missing]],
                     crs |-> data.crs,
                     left |-> data.left + 2 * (lo - 1)])

\* geom is the AOI's geometry in the raster's reference system (after lines
\* 148-166); every exception is re-raised by the handler of lines 192-193
clip_to_aoi(data, geom, all_touched, zero_area) ==
    IF data.crs = None
    THEN Raise(<<"Failed to clip raster to AOI: ", "Input data must have a CRS">>)
    ELSE LET raster_box == rio_bounds(data)
             clip_geom == intersection(geom, raster_box)
         IN  IF is_empty(clip_geom)
             THEN Raise(<<"Failed to clip raster to AOI: ",
                          "AOI does not overlap with raster data">>)
             ELSE LET clipped == rio_clip(data, clip_geom, all_touched, zero_area)
                  IN  IF clipped.ok THEN clipped
                      ELSE Raise(<<"Failed to clip raster to AOI: ", clipped.error>>)

\* ----------------------------------------------- direct call: clip_to_aoi
ClipRasters ==
    {[values |-> <<[p \in 1..NPix |-> <<10 + p, 1>>]>>, crs |-> c, left |-> 0] :
        c \in {Some("EPSG:32650"), None}}

\* AOI boxes: left of, touching, overlapping, covering and right of the
\* footprint in x; across, touching, off and over the footprint in y
AoiRangesX ==
    {<<-3, -1>>, <<-2, 0>>, <<-1, 1>>, <<0, 2 * NPix>>, <<1, 2 * NPix - 1>>,
     <<2 * NPix, 2 * NPix + 2>>, <<2 * NPix + 1, 2 * NPix + 3>>}

AoiRangesY == {<<0, 2>>, <<-1, 3>>, <<2, 4>>, <<-2, 0>>, <<3, 5>>}

AoiGeometries ==
    {Box(x[1], y[1], x[2], y[2]) : x \in AoiRangesX, y \in AoiRangesY}

InitClip ==
    /\ JobIdle
    /\ call \in {[fn |-> "clip_to_aoi", data |-> d, geom |-> g, all_touched |-> t] :
                    d \in ClipRasters, g \in AoiGeometries, t \in BOOLEAN}
    /\ ret = None
    /\ cog = NoCog
    /\ ServicesIdle

ClipToAoi ==
    /\ call.fn = "clip_to_aoi"
    /\ ret = None
    /\ \E zero_area \in {"burned", "not_burned"} :
          ret' = Some(clip_to_aoi(call.data, call.geom, call.all_touched, zero_area))
    /\ UNCHANGED <<jobVars, call, cog, serviceVars>>

NextClip == ClipToAoi

SpecClip == InitClip /\ [][NextClip]_vars

\* --------------------------------------------------- RasterProcessor.to_cog
\* A written raster file is [tiled, overviews, compress]: what its profile
\* and its overviews(1) report when it is opened again.
rasterFile(tiled, overviews, compress) ==
    [tiled |-> tiled, overviews |-> overviews,
     compress |-> IF compress = "NONE" THEN None ELSE Some(compress)]

\* variant of overview_loop that goes on while the quotient is not smaller
\* than the tile size
RECURSIVE overview_loop_or_equal(_, _, _)
overview_loop_or_equal(max_dim, tile_size, level) ==
    IF max_dim >= tile_size * level
    THEN <<level>> \o overview_loop_or_equal(max_dim, tile_size, 2 * level)
    ELSE <<>>

\* lines 262-265: while max_dim / level > tile_size; level is a power of two,
\* so the float quotient is exact and the test is max_dim > tile_size * level
RECURSIVE overview_loop(_, _, _)
overview_loop(max_dim, tile_size, level) ==
    IF max_dim > tile_size * level
    THEN <<level>> \o overview_loop(max_dim, tile_size, 2 * level)
    ELSE <<>>

\* variant of auto_overview_levels that takes the smallest dimension
auto_overview_levels_min_dim(width, height, tile_size) ==
    overview_loop(Min(width, height), tile_size, 2)

\* lines 260-265
auto_overview_levels(width, height, tile_size) ==
    overview_loop(Max(width, height), tile_size, 2)

\* variant of validate_cog that accepts a file that is not tiled
validate_cog_any_layout(file, reopen) ==
    IF reopen = "error"
    THEN Raise(<<"COG validation failed: ", "cannot open file">>)
    ELSE Ok(TRUE)

\* RasterProcessor._validate_cog, lines 294-326; reopen says whether
\* rasterio.open of the written file succeeds
validate_cog(file, reopen) ==
    IF reopen = "error"
    THEN Raise(<<"COG validation failed: ", "cannot open file">>)
    ELSE IF ~file.tiled
    THEN Raise(<<"COG validation failed: ", "File is not tiled">>)
    ELSE Ok(TRUE)

temp_path_of(output_path) == output_path \o <<".tmp">>

\* variant of remove_if_exists that leaves the file
leave_file(files, path) == files

\* lines 280-281 and 290-291: if os.path.exists(path): os.remove(path);
\* os.remove of the function's own file succeeds
remove_if_exists(files, path) == files \ {path}

\* the variables no step of to_cog changes
cogFrame ==
    <<pc, params, i, clipped_images, image_outcome, composites, bands_data,
      output_files, result, raised, reports, task, started_at_set, s3_objects,
      exit_code, call, serviceVars>>

\* a step of to_cog raises: control goes to the handler of line 288
CogThrow(msg) == cog' = [cog EXCEPT !.pc = "except", !.error = Some(msg)]

\* lines 221-238: the output directory and the profile
CogBegin ==
    /\ call.fn = "to_cog"
    /\ cog.pc = "start"
    /\ \E outcome \in {"ok", "makedirs_error"} :
          IF outcome = "ok"
          THEN /\ temp_dir' = [temp_dir EXCEPT !.exists = TRUE]
               /\ cog' = [cog EXCEPT !.pc = "to_raster"]
          ELSE /\ CogThrow("cannot create directory")
               /\ UNCHANGED temp_dir
    /\ UNCHANGED <<cogFrame, ret>>

\* lines 242-250: the intermediate file; a failing write may leave the file
CogToRaster ==
    /\ cog.pc = "to_raster"
    /\ LET temp_path == temp_path_of(call.output_path)
       IN  \E outcome \in {"ok", "error_with_file", "error_without_file"} :
              /\ temp_dir' = [temp_dir EXCEPT !.files =
                                IF outcome = "error_without_file" THEN @
                                ELSE @ \cup {temp_path}]
              /\ cog' = [cog EXCEPT
                           !.temp_path = Some(temp_path),
                           !.pc = IF outcome = "ok" THEN "rewrite" ELSE "except",
                           !.error = IF outcome = "ok" THEN None
                                     ELSE Some("cannot write raster")]
    /\ UNCHANGED <<cogFrame, ret>>

\* lines 253-277: the levels, the output file and its overviews.  tiled is
\* what the driver made of the profile: whether the file written reports
\* itself tiled when it is opened again.
CogRewrite ==
    /\ cog.pc = "rewrite"
    /\ \E outcome \in {"ok", "open_error", "write_error", "overview_error"},
          tiled \in BOOLEAN :
          LET levels == IF cog.overview_levels = None
                        THEN auto_overview_levels(call.data.width,
                                                  call.data.height, call.tile_size)
                        ELSE cog.overview_levels[1]
          IN  /\ (outcome \in {"open_error", "write_error"}) => tiled
              /\ (outcome = "overview_error") => (levels # <<>>)
              /\ temp_dir' = [temp_dir EXCEPT !.files =
                                IF outcome = "open_error" THEN @
                                ELSE @ \cup {call.output_path}]
              /\ cog' = [cog EXCEPT
                           !.overview_levels =
                               IF outcome = "open_error" THEN @ ELSE Some(levels),
                           !.output =
                               IF outcome = "ok"
                               THEN Some(rasterFile(tiled, levels, call.compress))
                               ELSE IF outcome = "overview_error"
                               THEN Some(rasterFile(tiled, <<>>, call.compress))
                               ELSE None,
                           !.pc = IF outcome = "ok" THEN "remove_temp" ELSE "except",
                           !.error = IF outcome = "ok" THEN None
                                     ELSE Some("cannot write output")]
    /\ UNCHANGED <<cogFrame, ret>>

\* lines 279-281
CogRemoveTemp ==
    /\ cog.pc = "remove_temp"
    /\ temp_dir' = [temp_dir EXCEPT !.files = remove_if_exists(@, cog.temp_path[1])]
    /\ cog' = [cog EXCEPT !.pc = "validate"]
    /\ UNCHANGED <<cogFrame, ret>>

\* lines 283-286
CogValidate ==
    /\ cog.pc = "validate"
    /\ \E reopen \in {"ok", "error"} :
          LET r == validate_cog(cog.output[1], reopen)
          IN  IF r.ok
              THEN /\ cog' = [cog EXCEPT !.pc = "done", !.reopen = Some(reopen)]
                   /\ ret' = Some(Ok(call.output_path))
              ELSE /\ cog' = [cog EXCEPT !.pc = "except", !.reopen = Some(reopen),
                                         !.error = Some(r.error)]
                   /\ UNCHANGED ret
    /\ UNCHANGED <<cogFrame, temp_dir>>

\* lines 288-292: the handler.  When the failure came before line 242,
\* temp_path is unbound and the handler itself raises (UnboundLocalError).
CogExcept ==
    /\ cog.pc = "except"
    /\ IF cog.temp_path = None
       THEN /\ ret' = Some(Raise(<<"UnboundLocalError: ", "temp_path">>))
            /\ UNCHANGED temp_dir
       ELSE /\ temp_dir' = [temp_dir EXCEPT
                              !.files = remove_if_exists(@, cog.temp_path[1])]
            /\ ret' = Some(Raise(<<"Failed to save as COG: ", cog.error[1]>>))
    /\ cog' = [cog EXCEPT !.pc = "done"]
    /\ UNCHANGED cogFrame

\* ---------------------------------------------------- direct call: to_cog
TileSizes == {2, 3}

CogRasters == {[width |-> w, height |-> h] : w \in 1..MaxDim, h \in {1, 6}}

SuppliedLevels == {None, Some(<<>>), Some(<<2>>), Some(<<2, 4>>), Some(<<3, 9>>)}

InitCog ==
    /\ JobIdle
    /\ call \in {[fn |-> "to_cog", data |-> d, output_path |-> <<"out.tif">>,
                  compress |-> c, tile_size |-> t, overview_levels |-> l] :
                    d \in CogRasters, c \in {"DEFLATE", "NONE"}, t \in TileSizes,
                    l \in SuppliedLevels}
    /\ ret = None
    /\ cog = [NoCog EXCEPT !.pc = "start", !.overview_levels = call.overview_levels]
    /\ ServicesIdle

NextCog ==
    \/ CogBegin
    \/ CogToRaster
    \/ CogRewrite
    \/ CogRemoveTemp
    \/ CogValidate
    \/ CogExcept

SpecCog == InitCog /\ [][NextCog]_vars

\* ------------------------------------------ RasterProcessor.read_cog_from_url
\* A text (a URL, an exception message) is a sequence of tokens; a token is
\* a piece of the text that the tests of lines 97-116 either match whole or
\* not at all.
startswith(text, prefix) == text # <<>> /\ text[1] = prefix

\* needle in text
Contains(needle, text) ==
    \E k \in 0..(Len(text) - Len(needle)) :
        SubSeq(text, k + 1, k + Len(needle)) = needle

LowerToken(t) == IF t = "Timeout" THEN "timeout" ELSE t

\* str.lower
lower(text) == [k \in DOMAIN text |-> LowerToken(text[k])]

\* lines 68-80: the name handed to rioxarray.open_rasterio
gdal_name(url) ==
    IF startswith(url, "s3://")
    THEN [k \in DOMAIN url |-> IF url[k] = "s3://" THEN "/vsis3/" ELSE url[k]]
    ELSE IF startswith(url, "http://") \/ startswith(url, "https://")
    THEN <<"/vsicurl/">> \o url
    ELSE url

\* str(e) of the exception of a failed open: the library's text for the
\* fault, after the name of the dataset when the library names it
exception_text(url, fault) ==
    IF fault.names_dataset THEN <<"'">> \o gdal_name(url) \o <<"' ">> \o fault.text
    ELSE fault.text

\* data.isel(band=band_indices) on a file of n bands: an index below zero
\* counts from the end, an index out of range raises IndexError
isel(values, band_indices) ==
    LET n == Len(values)
    IN  IF \E k \in DOMAIN band_indices : band_indices[k] \notin (-n)..(n - 1)
        THEN Raise(<<"index out of bounds">>)
        ELSE Ok([k \in DOMAIN band_indices |->
                    IF band_indices[k] < 0 THEN values[n + band_indices[k] + 1]
                    ELSE values[band_indices[k] + 1]])

\* lines 94-122: the ValueError raised for an exception with text error_msg
read_error(original_url, error_msg) ==
    LET head == <<"Failed to read COG from URL ">> \o original_url \o <<": ">>
    IN  IF \/ Contains(<<"404">>, error_msg)
           \/ Contains(<<"HTTP response code: ", "404">>, error_msg)
        THEN Raise(head \o <<"File not found (HTTP 404)">>)
        ELSE IF \/ Contains(<<"403">>, error_msg)
                \/ Contains(<<"HTTP response code: ", "403">>, error_msg)
        THEN Raise(head \o <<"Access denied (HTTP 403)">>)
        ELSE IF Contains(<<"does not exist in the file system">>, error_msg)
        THEN Raise(head \o <<"File not found">>)
        ELSE IF Contains(<<"timeout">>, lower(error_msg))
        THEN Raise(head \o <<"Connection timeout">>)
        ELSE Raise(head \o error_msg)

\* stored is the file behind the URL, fault what goes wrong when it is
\* opened (None: nothing)
read_cog_from_url(url, bands, stored, fault) ==
    IF fault # None THEN read_error(url, exception_text(url, fault[1]))
    ELSE IF bands = None THEN Ok(stored)
    ELSE LET band_indices == [k \in DOMAIN bands[1] |-> bands[1][k] - 1]
             picked == isel(stored.values, band_indices)
         IN  IF picked.ok THEN Ok([stored EXCEPT !.values = picked.value[1]])
             ELSE read_error(url, picked.error)

\* --------------------------------------- direct call: read_cog_from_url
Urls ==
    {<<"s3://", "bucket/", "scene", ".tif">>,
     <<"https://", "host/", "404", "/B04", ".tif">>,
     <<"http://", "host/", "403", ".tif">>,
     <<"/data/", "Timeout", "/scene", ".tif">>}

\* what the library says for each cause of a failed open (the texts that
\* lines 97-116 look for)
FaultTexts ==
    [not_found |-> {<<"HTTP response code: ", "404">>,
                    <<"does not exist in the file system">>},
     access_denied |-> {<<"HTTP response code: ", "403">>},
     timeout |-> {<<"Connection ", "timeout">>, <<"Timeout", " was reached">>},
     other |-> {<<"not recognized as a supported file format">>}]

Faults ==
    {[cause |-> c, text |-> t, names_dataset |-> n] :
        c \in DOMAIN FaultTexts, t \in UNION {FaultTexts[x] : x \in DOMAIN FaultTexts},
        n \in BOOLEAN}

StoredRaster == Raster(<<<<<<1, 1>>>>, <<<<2, 1>>>>>>, "EPSG:32650")

InitRead ==
    /\ JobIdle
    /\ call \in {[fn |-> "read_cog_from_url", url |-> u, bands |-> b,
                  stored |-> StoredRaster, fault |-> f] :
                    u \in Urls,
                    b \in {None, Some(<<1>>), Some(<<2, 1>>), Some(<<0>>), Some(<<3>>)},
                    f \in {None} \cup {Some(x) : x \in {y \in Faults :
                                                         y.text \in FaultTexts[y.cause]}}}
    /\ ret = None
    /\ cog = NoCog
    /\ ServicesIdle

ReadCogFromUrl ==
    /\ call.fn = "read_cog_from_url"
    /\ ret = None
    /\ ret' = Some(read_cog_from_url(call.url, call.bands, call.stored, call.fault))
    /\ UNCHANGED <<jobVars, call, cog, serviceVars>>

NextRead == ReadCogFromUrl

SpecRead == InitRead /\ [][NextRead]_vars

\* ------------------------------------------------- the processing endpoints
\* The task's record is served by one of three deployments: "api" is the
\* router of app/api/process.py, "handler" the standalone handler of
\* lambda_handlers/process_handler.py, "lambda" the handler of
\* lambda_process.py.  The worker of the job is BatchProcessor.run above.
Entries == {"api", "handler", "lambda"}

Terminal == {"completed", "failed"}

\* the keyword arguments of an update_task_status call: those not passed
\* keep their default None
Kw(status) ==
    [status |-> status, progress |-> None, batch_job_id |-> None,
     batch_job_status |-> None, started_at |-> None, completed_at |-> None,
     result |-> None, error |-> None]

\* TaskRepository.update_task_status of the standalone handler: the same
\* SET expression, the result stored as the dict it is given
Handler_update_task_status(t, kw) ==
    [raised |-> FALSE,
     task |-> [status |-> kw.status,
               progress |-> IF kw.progress # None THEN kw.progress[1]
                            ELSE t.progress,
               batch_job_id |-> IF kw.batch_job_id # None THEN kw.batch_job_id
                                ELSE t.batch_job_id,
               batch_job_status |-> IF kw.batch_job_status # None
                                    THEN kw.batch_job_status
                                    ELSE t.batch_job_status,
               started_at |-> IF kw.started_at # None THEN kw.started_at
                              ELSE t.started_at,
               completed_at |-> IF kw.completed_at # None THEN kw.completed_at
                                ELSE t.completed_at,
               result |-> IF kw.result # None THEN Some(kw.result[1].value)
                          ELSE t.result,
               error |-> IF kw.error # None THEN kw.error ELSE t.error]]

\* the repository an entry point writes through
repository_update(entry, t, kw) ==
    IF entry = "handler" THEN Handler_update_task_status(t, kw)
    ELSE TaskRepository_update_task_status(t, kw)

\* ---------------------------------------------------------- the batch job
\* retryStrategy attempts of the submit calls
retry_attempts(entry, task_type) ==
    IF entry = "handler" /\ task_type = "composite" THEN 2 ELSE 3

Cancellable == {"SUBMITTED", "PENDING", "RUNNABLE", "STARTING", "RUNNING"}

\* TerminateJob of the batch service: a job that has not reached STARTING is
\* cancelled at once, a job that is STARTING or RUNNING is marked and its
\* container stopped later (BatchKill); a finished job is left as it is
terminate_job(job) ==
    IF job.status \in {"SUBMITTED", "PENDING", "RUNNABLE"}
    THEN [job EXCEPT !.status = "FAILED", !.terminated = TRUE]
    ELSE IF job.status \in {"STARTING", "RUNNING"}
    THEN [job EXCEPT !.terminated = TRUE]
    ELSE job

\* BatchJobManager.cancel_job: the service version looks at the job's state
\* first, the standalone handler's version calls terminate_job directly
cancel_job(entry, job) ==
    IF entry = "handler" THEN terminate_job(job)
    ELSE IF job.status \in Cancellable THEN terminate_job(job)
    ELSE job

\* the status mapping of the handlers
batch_to_task_status(batch_status, default) ==
    IF batch_status \in {"SUBMITTED", "PENDING", "RUNNABLE"} THEN "queued"
    ELSE IF batch_status \in {"STARTING", "RUNNING"} THEN "running"
    ELSE IF batch_status = "SUCCEEDED" THEN "completed"
    ELSE IF batch_status = "FAILED" THEN "failed"
    ELSE default

\* the storage key the status endpoints look up for an index
lookup_key(index) == <<"tasks", "TASK_ID", <<index, ".tif">>>>

\* the output descriptors the status endpoints build: one for every index
\* of the request whose key exists in the bucket
found_output_files(parameters, objects) ==
    LET found == SelectSeq(parameters.indices,
                           LAMBDA index : lookup_key(index) \in objects)
    IN  [k \in DOMAIN found |->
            [name |-> <<found[k], ".tif">>, s3_key |-> lookup_key(found[k]),
             index |-> found[k]]]

\* ------------------------------------------------------ submit entry points
\* the variables of the worker process; task and s3_objects outlive it
workerVars ==
    <<pc, params, i, clipped_images, image_outcome, composites, bands_data,
      output_files, result, raised, reports, started_at_set, temp_dir,
      exit_code>>

\* create_task: the record as the submit handlers build it
SubmitCreate ==
    /\ call.fn = "task"
    /\ api.submit.pc = "start"
    /\ task' = NoTask
    /\ api' = [api EXCEPT !.created = TRUE, !.submit.pc = "submit_job"]
    /\ UNCHANGED <<workerVars, s3_objects, call, ret, cog, batch, sweep>>

\* batch_manager.submit_job.  The router catches what it raises and goes on
\* to mark the task failed; in the two handlers the exception leaves the
\* submit function.
SubmitJob ==
    /\ api.submit.pc = "submit_job"
    /\ \E outcome \in {"ok", "error"} :
          IF outcome = "ok"
          THEN /\ batch' = [status |-> "SUBMITTED",
                            attempts |-> Min(MaxAttempts,
                                             retry_attempts(call.entry,
                                                call.parameters.task_type)),
                            attempt |-> 0, terminated |-> FALSE]
               /\ api' = [api EXCEPT !.submit.pc = "update"]
          ELSE /\ api' = [api EXCEPT
                            !.submit.pc = IF call.entry = "api"
                                          THEN "mark_failed" ELSE "done",
                            !.submit.response = Some("submit_job failed")]
               /\ UNCHANGED batch
    /\ UNCHANGED <<jobVars, call, ret, cog, sweep>>

\* the update that attaches the batch job to the record
SubmitUpdate ==
    /\ api.submit.pc = "update"
    /\ LET kw == [Kw("queued") EXCEPT !.batch_job_id = Some("job"),
                                      !.batch_job_status = Some("SUBMITTED")]
       IN  task' = repository_update(call.entry, task, kw).task
    /\ api' = [api EXCEPT !.submit.pc = "done", !.submit.response = Some("queued")]
    /\ UNCHANGED <<workerVars, s3_objects, call, ret, cog, batch, sweep>>

\* process.py lines 117-122: the except clause of the router
SubmitMarkFailed ==
    /\ api.submit.pc = "mark_failed"
    /\ LET kw == [Kw("failed") EXCEPT
                     !.error = Some("Failed to submit to AWS Batch")]
       IN  task' = repository_update(call.entry, task, kw).task
    /\ api' = [api EXCEPT !.submit.pc = "done"]
    /\ UNCHANGED <<workerVars, s3_objects, call, ret, cog, batch, sweep>>

\* ------------------------------------------------------ status entry points
\* the update of the router's get_task_status for a batch status that
\* differs from the stored one; None when update_kwargs gets no status
poll_update_api(t, batch_status, parameters, objects) ==
    LET found == found_output_files(parameters, objects)
        kw == [Kw(batch_to_task_status(batch_status, "none")) EXCEPT
                  !.batch_job_status = Some(batch_status)]
    IN  IF batch_status \in {"SUBMITTED", "PENDING", "RUNNABLE"} THEN Some(kw)
        ELSE IF batch_status \in {"STARTING", "RUNNING"}
        THEN Some([kw EXCEPT !.started_at =
                      IF t.started_at = None /\ batch_status = "RUNNING"
                      THEN Some("startedAt") ELSE None])
        ELSE IF batch_status = "SUCCEEDED"
        THEN Some([kw EXCEPT
                      !.progress = Some(100),
                      !.completed_at = Some("stoppedAt"),
                      !.result =
                          IF t.result = None /\ found # <<>>
                          THEN Some([kind |-> "ProcessingResult",
                                     value |-> [output_files |-> found,
                                                metadata |->
                                                  [batch_job_id |-> t.batch_job_id]]])
                          ELSE None])
        ELSE IF batch_status = "FAILED"
        THEN Some([kw EXCEPT !.error = Some("Job failed")])
        ELSE None

\* the second update of the standalone handler's get_task_status
poll_update_handler(t, batch_status, parameters, objects) ==
    LET new_task_status == batch_to_task_status(batch_status, t.status)
        found == found_output_files(parameters, objects)
    IN  IF new_task_status = "completed" /\ t.status # "completed"
        THEN Some([Kw("completed") EXCEPT
                      !.progress = Some(100),
                      !.batch_job_status = Some(batch_status),
                      !.completed_at = Some("now"),
                      !.result = Some([kind |-> "dict",
                                       value |-> [output_files |-> found]])])
        ELSE IF new_task_status = "failed" /\ t.status # "failed"
        THEN Some([Kw("failed") EXCEPT
                      !.batch_job_status = Some(batch_status),
                      !.completed_at = Some("now"),
                      !.error = Some("Batch job failed")])
        ELSE IF new_task_status = "running" /\ t.status = "queued"
        THEN Some([Kw("running") EXCEPT
                      !.progress = Some(50),
                      !.batch_job_status = Some(batch_status),
                      !.started_at = Some("now")])
        ELSE None

\* the update of lambda_process.get_task_status
poll_update_lambda(t, batch_status, parameters, objects) ==
    IF batch_status = "SUCCEEDED" /\ t.status # "completed"
    THEN Some([Kw("completed") EXCEPT
                  !.progress = Some(100),
                  !.result = Some([kind |-> "dict",
                                   value |-> [output_files |->
                                      found_output_files(parameters, objects)]])])
    ELSE None

\* the update a status request makes after it has read the task and the
\* batch status, None when it makes none
poll_update(entry, t, batch_status, parameters, objects) ==
    IF entry = "api"
    THEN IF Some(batch_status) # t.batch_job_status
         THEN poll_update_api(t, batch_status, parameters, objects)
         ELSE None
    ELSE IF entry = "handler"
    THEN poll_update_handler(t, batch_status, parameters, objects)
    ELSE poll_update_lambda(t, batch_status, parameters, objects)

\* the fields of the record a request uses after get_task has returned
read_task(t) ==
    [status |-> t.status, batch_job_id |-> t.batch_job_id,
     batch_job_status |-> t.batch_job_status, started_at |-> t.started_at,
     result |-> t.result]

\* task_repository.get_task of a status request; the request carries the
\* task id the submit response returned
PollGet ==
    /\ call.fn = "task"
    /\ api.created
    /\ api.submit.pc = "done"
    /\ api.poll.pc = "idle"
    /\ api.poll.count < MaxPolls
    /\ api' = [api EXCEPT !.poll =
                  [pc |-> IF task.batch_job_id # None THEN "batch" ELSE "idle",
                   task |-> IF task.batch_job_id # None THEN Some(read_task(task))
                            ELSE None,
                   batch_status |-> None, response |-> None,
                   count |-> @.count + 1]]
    /\ UNCHANGED <<jobVars, call, ret, cog, batch, sweep>>

\* batch_manager.get_job_status of a status request
PollBatch ==
    /\ api.poll.pc = "batch"
    /\ LET t == api.poll.task[1]
           first == call.entry = "handler" /\ Some(batch.status) # t.batch_job_status
           update == poll_update(call.entry, t, batch.status, call.parameters, {})
           more == first \/ update # None
       IN  api' = [api EXCEPT
                     !.poll.batch_status = IF more THEN Some(batch.status) ELSE None,
                     !.poll.pc = IF first THEN "write_batch_status"
                                 ELSE IF update # None THEN "write"
                                 ELSE "idle",
                     !.poll.task = IF more THEN @ ELSE None]
    /\ UNCHANGED <<jobVars, call, ret, cog, batch, sweep>>

\* process_handler.py lines 793-798: the batch status is stored together
\* with the status the request read
PollWriteBatchStatus ==
    /\ api.poll.pc = "write_batch_status"
    /\ LET t == api.poll.task[1]
           batch_status == api.poll.batch_status[1]
           kw == [Kw(t.status) EXCEPT !.batch_job_status = Some(batch_status)]
           update == poll_update(call.entry, t, batch_status, call.parameters, {})
       IN  /\ task' = repository_update(call.entry, task, kw).task
           /\ api' = [api EXCEPT
                         !.poll.pc = IF update # None THEN "write" ELSE "idle",
                         !.poll.batch_status = IF update # None THEN @ ELSE None,
                         !.poll.task = IF update # None THEN @ ELSE None]
    /\ UNCHANGED <<workerVars, s3_objects, call, ret, cog, batch, sweep>>

\* the lookups in the bucket and the update of the record
PollWrite ==
    /\ api.poll.pc = "write"
    /\ LET t == api.poll.task[1]
           batch_status == api.poll.batch_status[1]
           update == poll_update(call.entry, t, batch_status, call.parameters,
                                 s3_objects)
       IN  /\ task' = repository_update(call.entry, task, update[1]).task
           /\ api' = [api EXCEPT !.poll.pc = "idle", !.poll.task = None,
                                 !.poll.batch_status = None]
    /\ UNCHANGED <<workerVars, s3_objects, call, ret, cog, batch, sweep>>

\* ------------------------------------------------------ cancel entry points
\* task_repository.get_task of a cancel request; only the router checks the
\* status it read (process.py lines 389-393)
CancelGet ==
    /\ call.fn = "task"
    /\ api.created
    /\ api.submit.pc = "done"
    /\ api.cancel.pc = "idle"
    /\ api.cancel.count < MaxCancels
    /\ LET rejected == call.entry = "api" /\ task.status \in Terminal
       IN  api' = [api EXCEPT !.cancel =
                     [pc |-> IF rejected THEN "idle"
                             ELSE IF task.batch_job_id # None THEN "batch"
                             ELSE "write",
                      task |-> None, batch_status |-> None,
                      response |-> IF rejected THEN Some("rejected") ELSE None,
                      count |-> @.count + 1]]
    /\ UNCHANGED <<jobVars, call, ret, cog, batch, sweep>>

\* batch_manager.cancel_job of a cancel request
CancelBatch ==
    /\ api.cancel.pc = "batch"
    /\ batch' = cancel_job(call.entry, batch)
    /\ api' = [api EXCEPT !.cancel.pc = "write"]
    /\ UNCHANGED <<jobVars, call, ret, cog, sweep>>

\* the update that marks the task failed; lambda_process passes no
\* completed_at
CancelWrite ==
    /\ api.cancel.pc = "write"
    /\ LET kw == [Kw("failed") EXCEPT
                     !.error = Some("Cancelled by user"),
                     !.completed_at = IF call.entry = "lambda" THEN None
                                      ELSE Some("now")]
       IN  task' = repository_update(call.entry, task, kw).task
    /\ api' = [api EXCEPT !.cancel.pc = "idle",
                          !.cancel.response = Some("cancelled")]
    /\ UNCHANGED <<workerVars, s3_objects, call, ret, cog, batch, sweep>>

\* ----------------------------------------------------- the batch service
\* the queue moves the job towards its container (PENDING, the state of a
\* job that waits for another job, is passed through)
BatchAdvance ==
    /\ call.fn = "task"
    /\ batch.status \in {"SUBMITTED", "RUNNABLE"}
    /\ batch' = [batch EXCEPT !.status = IF @ = "SUBMITTED" THEN "RUNNABLE"
                                         ELSE "STARTING"]
    /\ UNCHANGED <<jobVars, call, ret, cog, api, sweep>>

\* the container of an attempt starts: main() builds a BatchProcessor from
\* the environment set by submit_job and calls run
BatchStart ==
    /\ call.fn = "task"
    /\ batch.status = "STARTING"
    /\ ~batch.terminated
    /\ batch' = [batch EXCEPT !.status = "RUNNING", !.attempt = @ + 1]
    /\ pc' = "start"
    /\ params' = call.parameters
    /\ i' = 0
    /\ clipped_images' = <<>>
    /\ image_outcome' = <<>>
    /\ composites' = <<>>
    /\ bands_data' = {}
    /\ output_files' = <<>>
    /\ result' = None
    /\ raised' = None
    /\ reports' = <<>>
    /\ started_at_set' = FALSE
    /\ temp_dir' = [exists |-> TRUE, files |-> {}]
    /\ exit_code' = None
    /\ UNCHANGED <<task, s3_objects, call, ret, cog, api, sweep>>

\* the worker process is gone: its state is that of no process
ProcessGone ==
    /\ pc' = "idle"
    /\ params' = NoParams
    /\ i' = 0
    /\ clipped_images' = <<>>
    /\ image_outcome' = <<>>
    /\ composites' = <<>>
    /\ bands_data' = {}
    /\ output_files' = <<>>
    /\ result' = None
    /\ raised' = None
    /\ reports' = <<>>
    /\ started_at_set' = FALSE
    /\ temp_dir' = [exists |-> FALSE, files |-> {}]
    /\ exit_code' = None

\* the container has exited with the value run returned: exit code 0 ends
\* the job, another exit code starts the next attempt while attempts remain
BatchExit ==
    /\ call.fn = "task"
    /\ batch.status = "RUNNING"
    /\ pc = "done"
    /\ batch' = [batch EXCEPT !.status =
                    IF exit_code = Some(0) THEN "SUCCEEDED"
                    ELSE IF batch.attempt < batch.attempts /\ ~batch.terminated
                    THEN "RUNNABLE"
                    ELSE "FAILED"]
    /\ ProcessGone
    /\ UNCHANGED <<task, s3_objects, call, ret, cog, api, sweep>>

\* the container of a terminated job is stopped wherever run is
BatchKill ==
    /\ call.fn = "task"
    /\ batch.status \in {"STARTING", "RUNNING"}
    /\ batch.terminated
    /\ batch' = [batch EXCEPT !.status = "FAILED"]
    /\ ProcessGone
    /\ UNCHANGED <<task, s3_objects, call, ret, cog, api, sweep>>

\* ------------------------------------------------- the life of a task
\* requests of the model: indices requests that pass the checks of the
\* worker
TaskRequests ==
    {[task_type |-> "indices", image_urls |-> <<>>, image_timestamps |-> <<>>,
      aoi |-> "polygon", satellite |-> "sentinel-2", apply_cloud_mask |-> FALSE,
      qa_band_urls |-> <<>>, indices |-> <<"NDVI">>,
      band_urls |-> {"red", "nir"}]}

InitTask ==
    /\ JobIdle
    /\ call \in {[fn |-> "task", entry |-> e, parameters |-> r] :
                    e \in Entries, r \in TaskRequests}
    /\ ret = None
    /\ cog = NoCog
    /\ api = [NoApi EXCEPT !.submit.pc = "start"]
    /\ batch = NoBatch
    /\ sweep = NoSweep

NextTask ==
    \/ SubmitCreate
    \/ SubmitJob
    \/ SubmitUpdate
    \/ SubmitMarkFailed
    \/ PollGet
    \/ PollBatch
    \/ PollWriteBatchStatus
    \/ PollWrite
    \/ CancelGet
    \/ CancelBatch
    \/ CancelWrite
    \/ BatchAdvance
    \/ BatchStart
    \/ BatchExit
    \/ BatchKill
    \/ RunStart
    \/ IndicesBegin
    \/ ReadBands
    \/ IndexStep
    \/ IndicesDone
    \/ RunComplete
    \/ RunExcept
    \/ Cleanup

SpecTask == InitTask /\ [][NextTask]_vars

\* ------------------------------------- CleanupService.cleanup_expired_tasks
\* A datetime is [t |-> days, tzinfo |-> "utc" or "naive"].  The table is the
\* sequence of its records in scan order; the task_id of a record is its
\* position.  present holds the ids of the records not yet deleted.
retention_days == 30

now == [t |-> 32, tzinfo |-> "utc"]

\* datetime - timedelta(days)
minus_days(dt, days) == [dt EXCEPT !.t = @ - days]

\* lines 107-110: a naive created_at is read as UTC
as_aware(created_at) == [created_at EXCEPT !.tzinfo = "utc"]

\* variant of is_expired that takes the task created at the cutoff too
is_expired_or_at_cutoff(task_created, cutoff_date) == task_created.t <= cutoff_date.t

\* line 112: task_created < cutoff_date, both aware
is_expired(task_created, cutoff_date) == task_created.t < cutoff_date.t

CreatedAts ==
    {[t |-> 1, tzinfo |-> "utc"], [t |-> 1, tzinfo |-> "naive"],
     [t |-> 2, tzinfo |-> "utc"], [t |-> 3, tzinfo |-> "utc"]}

RECURSIVE TablesOf(_)
TablesOf(n) ==
    IF n = 0 THEN {<<>>}
    ELSE {Append(tb, c) : tb \in TablesOf(n - 1), c \in CreatedAts}

Tables == UNION {TablesOf(n) : n \in 0..MaxTasks}

\* the page of n records after position start, with its LastEvaluatedKey
scan_page(table, start, n, key) ==
    [tasks |-> [k \in 1..n |-> [task_id |-> start + k,
                                created_at |-> table[start + k]]],
     next_key |-> key]

\* TaskRepository.list_tasks without a status, lines 341-358: the pages a
\* scan with Limit and ExclusiveStartKey can return.  A page holds between
\* one record and limit records while records remain; the page that reaches
\* the end of the table comes with or without a LastEvaluatedKey.
list_tasks(table, limit, last_evaluated_key) ==
    LET start == IF last_evaluated_key = None THEN 0 ELSE last_evaluated_key[1]
        remaining == Len(table) - start
    IN  IF remaining = 0 THEN {scan_page(table, start, 0, None)}
        ELSE {scan_page(table, start, n, Some(start + n)) :
                 n \in 1..Min(limit, remaining - 1)}
             \cup (IF remaining <= limit
                   THEN {scan_page(table, start, remaining, key) :
                            key \in {None, Some(Len(table))}}
                   ELSE {})

InitSweep ==
    /\ JobIdle
    /\ call \in {[fn |-> "cleanup_expired_tasks", cutoff_date |-> c] :
                    c \in {None, Some(minus_days(now, retention_days))}}
    /\ ret = None
    /\ cog = NoCog
    /\ api = NoApi
    /\ batch = NoBatch
    /\ sweep \in {[NoSweep EXCEPT !.pc = "start", !.table = tb,
                                  !.present = 1..Len(tb)] : tb \in Tables}

\* lines 94-98: the default cutoff and the locals
SweepStart ==
    /\ call.fn = "cleanup_expired_tasks"
    /\ sweep.pc = "start"
    /\ sweep' = [sweep EXCEPT
                    !.pc = "list",
                    !.cutoff_date = IF call.cutoff_date = None
                                    THEN Some(minus_days(now, retention_days))
                                    ELSE call.cutoff_date,
                    !.deleted_count = 0,
                    !.last_key = None]
    /\ UNCHANGED <<jobVars, call, ret, cog, api, batch>>

\* lines 101-104: list_tasks returns a page, or raises into the handler of
\* line 125, after which the count so far is returned
SweepList ==
    /\ sweep.pc = "list"
    /\ \/ /\ \E pg \in list_tasks(sweep.table, PageLimit, sweep.last_key) :
                sweep' = [sweep EXCEPT !.pc = "page", !.tasks = pg.tasks,
                                       !.last_key = pg.next_key, !.k = 0,
                                       !.pages = @ + 1]
          /\ ret' = ret
       \/ /\ sweep' = [sweep EXCEPT !.pc = "done", !.list_failed = TRUE]
          /\ ret' = Some(sweep.deleted_count)
    /\ UNCHANGED <<jobVars, call, cog, api, batch>>

\* lines 106-120: one task of the page.  delete_task deletes the record,
\* finds it already deleted by another caller, or fails.
SweepTask ==
    /\ sweep.pc = "page"
    /\ sweep.k < Len(sweep.tasks)
    /\ LET tk == sweep.tasks[sweep.k + 1]
           seen == [sweep EXCEPT !.k = @ + 1, !.listed = @ \cup {tk.task_id}]
       IN  IF is_expired(as_aware(tk.created_at), sweep.cutoff_date[1])
           THEN \E outcome \in {"deleted", "TaskNotFoundError", "error"} :
                   sweep' =
                      IF outcome = "deleted"
                      THEN [seen EXCEPT !.present = @ \ {tk.task_id},
                                        !.deleted_count = @ + 1,
                                        !.succeeded = @ \cup {tk.task_id}]
                      ELSE IF outcome = "TaskNotFoundError"
                      THEN [seen EXCEPT !.present = @ \ {tk.task_id},
                                        !.failed = @ \cup {tk.task_id}]
                      ELSE [seen EXCEPT !.failed = @ \cup {tk.task_id}]
           ELSE sweep' = seen
    /\ UNCHANGED <<jobVars, call, ret, cog, api, batch>>

\* lines 122-123 and 128-129: the loop ends on a page without a key
SweepPageEnd ==
    /\ sweep.pc = "page"
    /\ sweep.k = Len(sweep.tasks)
    /\ IF sweep.last_key = None
       THEN /\ sweep' = [sweep EXCEPT !.pc = "done", !.tasks = <<>>, !.k = 0]
            /\ ret' = Some(sweep.deleted_count)
       ELSE /\ sweep' = [sweep EXCEPT !.pc = "list", !.tasks = <<>>, !.k = 0]
            /\ ret' = ret
    /\ UNCHANGED <<jobVars, call, cog, api, batch>>

NextSweep ==
    \/ SweepStart
    \/ SweepList
    \/ SweepTask
    \/ SweepPageEnd

SpecSweep == InitSweep /\ [][NextSweep]_vars

\* the call runs in one thread that is not suspended for ever
SpecSweepFair == SpecSweep /\ WF_vars(NextSweep)

\* ======================================================= cloud mask claims
MaskDone == call.fn = "apply_cloud_mask" /\ ret # None

Bit(v, k) == (v \div 2^k) % 2 = 1

\* C5: for a sentinel-2 quality band, of the codes {0,1,3,4,5,6,7,8,9,10,11}
\* a pixel keeps its value iff its code is in {4,5,6,7}; a pixel with any
\* other of these codes becomes missing.
C5_OnlyClearClassesSurvive ==
    (MaskDone /\ call.satellite = "sentinel-2") =>
        \A p \in 1..NPix :
            LET code == call.qa_band.values[1][p]
            IN  code \in {0, 1, 3, 4, 5, 6, 7, 8, 9, 10, 11} =>
                    \A b \in DOMAIN call.data.values :
                        LET out == ret[1].value[1].values[b][p]
                        IN  /\ (out = call.data.values[b][p]) <=> (code \in {4, 5, 6, 7})
                            /\ (code \notin {4, 5, 6, 7}) => (out = Missing)

StackDone == call.fn = "composite_monthly" /\ ret # None

StackReturned == StackDone /\ ret[1].ok

\* the labels of the returned list, in order
ReturnedLabels == [k \in DOMAIN ret[1].value[1] |-> ret[1].value[1][k][1]]

\* a label reads YYYY-MM for the year and month of ts
IsLabelOf(label, ts) ==
    /\ Len(label) = 7
    /\ label[5] = 45
    /\ \A k \in {1, 2, 3, 4, 6, 7} : label[k] \in 48..57
    /\ 1000 * (label[1] - 48) + 100 * (label[2] - 48)
         + 10 * (label[3] - 48) + (label[4] - 48) = ts.year
    /\ 10 * (label[6] - 48) + (label[7] - 48) = ts.month

\* lexicographic order of two labels, stated position by position
LexBefore(a, b) ==
    \E k \in 1..Min(Len(a), Len(b)) :
        /\ \A m \in 1..(k - 1) : a[m] = b[m]
        /\ a[k] < b[k]

\* the positions of the inputs that the group of a label holds
GroupOf(label) == group_images(call.images, call.timestamps)[label]

\* C8: composite_monthly puts each input image in the group labelled with
\* the four-digit year and two-digit month of its own timestamp, every input
\* image is a member of exactly one group, and the groups are returned in
\* ascending order of label whatever the order of the inputs.
C8_GroupedByMonthAscending ==
    StackReturned =>
        LET labels == ReturnedLabels
        IN  /\ \A j \in DOMAIN call.images :
                  \E k \in DOMAIN labels :
                      /\ IsLabelOf(labels[k], call.timestamps[j])
                      /\ Cardinality({m \in DOMAIN GroupOf(labels[k]) :
                                         GroupOf(labels[k])[m] = j}) = 1
                      /\ \A k2 \in DOMAIN labels :
                            k2 # k => \A m \in DOMAIN GroupOf(labels[k2]) :
                                          GroupOf(labels[k2])[m] # j
            /\ \A k \in DOMAIN labels : GroupOf(labels[k]) # <<>>
            /\ \A k \in 1..(Len(labels) - 1) : LexBefore(labels[k], labels[k + 1])

\* three images given out of order (October, December of the year before,
\* October) came back as two groups, December first
C8_Witness ==
    /\ StackReturned
    /\ Len(call.images) = 3
    /\ call.timestamps[1] = [year |-> 2024, month |-> 10]
    /\ call.timestamps[2] = [year |-> 2023, month |-> 12]
    /\ call.timestamps[3] = [year |-> 2024, month |-> 10]
    /\ Len(ReturnedLabels) = 2
    /\ IsLabelOf(ReturnedLabels[1], call.timestamps[2])
    /\ GroupOf(ReturnedLabels[2]) = <<1, 3>>

\* f[1] + .. + f[n]
RECURSIVE SumTo(_, _)
SumTo(f, n) == IF n = 0 THEN 0 ELSE f[n] + SumTo(f, n - 1)

\* the positions of the inputs whose timestamp falls in the period of label
MembersOf(label) ==
    {j \in DOMAIN call.images : IsLabelOf(label, call.timestamps[j])}

\* C9: in a period's composite each pixel is the mean of that pixel's
\* non-missing values across the group's members: a pixel missing in every
\* member is missing in the composite, and a pixel missing in some members
\* is the mean of the present values only.
C9_MeanOfPresentValues ==
    StackReturned =>
        \A k \in DOMAIN ret[1].value[1] : \A p \in 1..NPix :
            LET label == ret[1].value[1][k][1]
                out == ret[1].value[1][k][2].values[1][p]
                present == {j \in MembersOf(label) :
                               call.images[j].values[1][p] # Missing}
                value == [j \in DOMAIN call.images |->
                             IF j \in present
                             THEN call.images[j].values[1][p][1] ELSE 0]
            IN  IF present = {} THEN out = Missing
                ELSE /\ out # Missing
                     /\ out[1] * Cardinality(present) = out[2] * SumTo(value, Len(value))

\* a period with three members came back: pixel 1 is missing in all three
\* and missing in the composite, pixel 2 is missing in one member only and
\* is the mean of the other two
C9_Witness ==
    /\ StackReturned
    /\ Len(call.images) = 3
    /\ Len(ret[1].value[1]) = 1
    /\ \A j \in 1..3 : call.images[j].values[1][1] = Missing
    /\ ret[1].value[1][1][2].values[1][1] = Missing
    /\ call.images[1].values[1][2] = Missing
    /\ call.images[2].values[1][2] = <<8, 1>>
    /\ call.images[3].values[1][2] = <<11, 1>>
    /\ ret[1].value[1][1][2].values[1][2] = <<19, 2>>

\* C10: composite_monthly fails with an error, and returns no composite,
\* whenever the images and timestamps lists differ in length or the images
\* list is empty.
C10_RejectsMismatchedOrEmpty ==
    (StackDone /\ (Len(call.images) # Len(call.timestamps) \/ call.images = <<>>)) =>
        /\ ~ret[1].ok
        /\ ret[1].error # ""
        /\ ret[1].value = None

\* a call with two images and three timestamps has raised
C10_WitnessMismatch ==
    /\ StackDone
    /\ Len(call.images) = 2
    /\ Len(call.timestamps) = 3
    /\ ~ret[1].ok

\* ======================================================== batch job claims
\* a composite job whose request passed the checks of lines 467-474
CompositeJob == params.task_type = "composite" /\ image_outcome # <<>>

\* the request positions of the images that were not skipped
Kept == {j \in DOMAIN image_outcome : image_outcome[j] \in {"read", "masked"}}

\* the read loop of the composite job is over and line 507 was passed
LoopOver == CompositeJob /\ pc # "read_image"

EncodeErrors ==
    {"Failed to save as COG", "Failed to upload file",
     "Failed to generate presigned URL"}

\* C1 as stated: in a composite job over N images, an image whose read,
\* clip or mask step fails is skipped and the remaining images are still
\* composited; the job fails if and only if every one of the N images fails.
C1_FailsIffEveryImageFails ==
    (CompositeJob /\ pc = "done") =>
        ((exit_code = Some(1)) <=> (Kept = {}))

\* the number of images held by the groups of the composite call
CompositedCount ==
    LET n == Len(clipped_images)
        g == group_images(clipped_images, SubSeq(params.image_timestamps, 1, n))
        size == [k \in DOMAIN composites |-> Len(g[composites[k][1]])]
    IN  SumTo(size, Len(size))

\* the k-th smallest member of a set of positions
RECURSIVE Nth(_, _)
Nth(S, k) ==
    LET m == CHOOSE x \in S : \A y \in S : x <= y
    IN  IF k = 1 THEN m ELSE Nth(S \ {m}, k - 1)

\* C1 as amended: once the request has passed the parameter checks, an image
\* whose read, clip or mask step fails is skipped and the remaining images
\* are still composited; the read phase ends the job in failure if and only
\* if every one of the N images fails, and a job in which some image was
\* read fails only at a later encoding, upload or URL step.
C1_ReadPhaseFailsIffEveryImageFails ==
    LoopOver =>
        /\ (Kept = {}) <=> (raised = Some("No images could be read successfully"))
        /\ (Kept = {}) => (composites = <<>>)
        /\ (Kept # {}) =>
              /\ Len(clipped_images) = Cardinality(Kept)
              /\ \A k \in DOMAIN clipped_images :
                    clipped_images[k].values[1][1]
                        \in {JobImage(Nth(Kept, k)).values[1][1], Missing}
              /\ composites # <<>>
              /\ CompositedCount = Cardinality(Kept)
              /\ (raised # None) => (raised[1] \in EncodeErrors)
              /\ (pc = "done" /\ raised = None) => (exit_code = Some(0))

\* a job over three images has returned 0 although its second image was
\* skipped; the other two were composited
C1_Witness ==
    /\ CompositeJob
    /\ pc = "done"
    /\ Len(image_outcome) = 3
    /\ image_outcome[2] = "skipped"
    /\ Kept = {1, 3}
    /\ exit_code = Some(0)
    /\ CompositedCount = 2

\* C2: when processing succeeds, run returns 0 and the task record ends with
\* status completed, progress 100 and a result listing the produced output
\* files; when processing raises, run returns 1 and the task record ends
\* with status failed and the error message.
C2_FinalRecordMatchesOutcome ==
    (call.fn = "run" /\ pc = "done") =>
        /\ (result # None) =>
              /\ exit_code = Some(0)
              /\ task.status = "completed"
              /\ task.progress = 100
              /\ task.result # None
              /\ task.result[1].output_files = output_files
        /\ (raised # None) =>
              /\ exit_code = Some(1)
              /\ task.status = "failed"
              /\ task.error = Some(<<"Task failed: ", raised[1]>>)

\* C3: the sequence of progress values a composite job reports, from the
\* first report at start to the final report at completion, never goes down,
\* and every value lies in 0..100, for every number of images, every pattern
\* of skipped images and every number of periods.
C3_ProgressMonotone ==
    (params.task_type = "composite") =>
        /\ \A k \in DOMAIN reports : reports[k] \in 0..100
        /\ \A k \in 1..(Len(reports) - 1) : reports[k] <= reports[k + 1]

\* a composite job over three images, the first of them skipped, with two
\* periods, has completed: it reported 0, 5, two read steps, 50, 70, two
\* save steps and 100
C3_Witness ==
    /\ CompositeJob
    /\ pc = "done"
    /\ exit_code = Some(0)
    /\ Len(image_outcome) = 3
    /\ image_outcome[1] = "skipped"
    /\ Len(composites) = 2
    /\ reports = <<0, 5, 31, 45, 50, 70, 82, 95, 100>>

C7_UnsupportedSensorIsFatal ==
    (/\ params.task_type = "composite"
     /\ params.apply_cloud_mask
     /\ params.satellite \notin {"sentinel-2", "landsat-8"}) =>
        /\ composites = <<>>
        /\ s3_objects = {}
        /\ (pc = "done") => (exit_code = Some(1))

\* ================================================= index calculator claims
IndexDone == call.fn \in {"calculate_ndvi", "calculate_savi", "calculate_evi",
                          "calculate_vgi"} /\ ret # None

\* rational arithmetic on pairs <<numerator, denominator>>, not reduced
RAdd(a, b) == <<a[1] * b[2] + b[1] * a[2], a[2] * b[2]>>

RSub(a, b) == <<a[1] * b[2] - b[1] * a[2], a[2] * b[2]>>

RMul(a, b) == <<a[1] * b[1], a[2] * b[2]>>

\* the band values of the call at pixel p
InputsAt(p) ==
    IF call.fn = "calculate_evi"
    THEN {call.nir.values[p], call.red.values[p], call.blue.values[p]}
    ELSE IF call.fn = "calculate_vgi"
    THEN {call.green.values[p], call.red.values[p]}
    ELSE {call.nir.values[p], call.red.values[p]}

\* the band values in the denominator of the formula at pixel p
DenominatorInputsAt(p) ==
    IF call.fn = "calculate_vgi" THEN {call.red.values[p]} ELSE InputsAt(p)

\* numerator and denominator of the index formula at pixel p
FormulaNumerator(p) ==
    IF call.fn = "calculate_ndvi"
    THEN RSub(call.nir.values[p], call.red.values[p])
    ELSE IF call.fn = "calculate_savi"
    THEN RMul(RAdd(<<1, 1>>, call.L.value),
              RSub(call.nir.values[p], call.red.values[p]))
    ELSE IF call.fn = "calculate_evi"
    THEN RMul(<<5, 2>>, RSub(call.nir.values[p], call.red.values[p]))
    ELSE call.green.values[p]

FormulaDenominator(p) ==
    IF call.fn = "calculate_ndvi"
    THEN RAdd(call.nir.values[p], call.red.values[p])
    ELSE IF call.fn = "calculate_savi"
    THEN RAdd(RAdd(call.nir.values[p], call.red.values[p]), call.L.value)
    ELSE IF call.fn = "calculate_evi"
    THEN RAdd(RSub(RAdd(call.nir.values[p], RMul(<<6, 1>>, call.red.values[p])),
                   RMul(<<15, 2>>, call.blue.values[p])),
              <<1, 1>>)
    ELSE call.red.values[p]

\* C11: for NDVI, SAVI, EVI and VGI, every pixel whose formula denominator
\* is exactly zero yields 0 and every other pixel yields the formula's value
\* (missing where a band value it needs is missing); a zero denominator
\* never raises and never yields NaN or infinity.
C11_ZeroDenominatorYieldsZero ==
    IndexDone =>
        /\ ret[1].ok
        /\ \A p \in 1..NPix :
              LET out == ret[1].value[1].values[p]
                  n == FormulaNumerator(p)
                  d == FormulaDenominator(p)
              IN  IF Missing \in DenominatorInputsAt(p) THEN out = Missing
                  ELSE IF d[1] = 0 THEN out = <<0, 1>>
                  ELSE IF Missing \in InputsAt(p) THEN out = Missing
                  ELSE /\ out # Missing
                       /\ out[2] > 0
                       /\ out[1] * d[1] * n[2] = out[2] * n[1] * d[2]

\* C12: for every pair of band values (nir, red), calculate_savi with L = 0
\* returns the same value as calculate_ndvi, including at pixels where
\* nir + red is zero.
C12_SaviAtZeroIsNdvi ==
    (IndexDone /\ call.fn = "calculate_savi" /\ call.L.value = <<0, 1>>) =>
        /\ ret[1].ok
        /\ ret[1].value[1].values = calculate_ndvi(call.nir, call.red).value[1].values

\* calculate_savi with L = 0.0 has returned for bands where one pixel has
\* nir + red = 0 with nir # red and yields 0, and another pixel yields 2/3
C12_Witness ==
    /\ IndexDone
    /\ call.fn = "calculate_savi"
    /\ call.L = PyFloat(0, 1)
    /\ \E p, q \in 1..NPix :
          /\ call.nir.values[p] = <<1, 2>>
          /\ call.red.values[p] = <<-1, 2>>
          /\ ret[1].value[1].values[p] = <<0, 1>>
          /\ call.nir.values[q] = <<1, 1>>
          /\ call.red.values[q] = <<1, 5>>
          /\ ret[1].value[1].values[q] = <<2, 3>>

\* ============================================================ clip claims
ClipDone == call.fn = "clip_to_aoi" /\ ret # None

\* the AOI and the footprint of the raster have some area in common
ShareArea ==
    /\ call.geom.minx < 2 * NPix /\ call.geom.maxx > 0
    /\ call.geom.miny < 2 /\ call.geom.maxy > 0

\* C13: clip_to_aoi fails with a no-overlap error whenever the AOI and the
\* raster footprint share no area (zero-area contact along an edge or at a
\* corner included); for such input it never returns an empty or all-missing
\* raster.  Stated for rasters that have a reference system.
C13_NoAreaIsNoOverlap ==
    (ClipDone /\ call.data.crs # None /\ ~ShareArea) =>
        /\ ~ret[1].ok
        /\ ret[1].error = <<"Failed to clip raster to AOI: ",
                            "AOI does not overlap with raster data">>

\* ========================================================== to_cog claims
CogDone == call.fn = "to_cog" /\ cog.pc = "done"

\* lines 253-277 ran to the end: the output file holds its overviews
RewriteDone ==
    /\ call.fn = "to_cog"
    /\ cog.output # None
    /\ cog.error # Some("cannot write output")

LargestDimension ==
    IF call.data.width > call.data.height THEN call.data.width
    ELSE call.data.height

PowersOfTwo == {2^k : k \in 1..8}

\* the overviews of the written file are the levels of S, in ascending order
BuiltExactly(S) ==
    LET ov == cog.output[1].overviews
    IN  /\ {ov[k] : k \in DOMAIN ov} = S
        /\ Len(ov) = Cardinality(S)
        /\ \A k \in 1..(Len(ov) - 1) : ov[k] < ov[k + 1]

C15_OverviewWhenOverTileSize ==
    (CogDone /\ ret[1].ok /\ call.overview_levels = None
        /\ LargestDimension > call.tile_size) =>
        Len(cog.output[1].overviews) >= 1

\* C15 as amended: for every raster whose largest dimension exceeds twice
\* the tile size, the file written by to_cog with automatic overview levels
\* exposes at least one overview level.
C15_OverviewWhenOverTwoTiles ==
    (CogDone /\ ret[1].ok /\ call.overview_levels = None
        /\ LargestDimension > 2 * call.tile_size) =>
        Len(cog.output[1].overviews) >= 1

\* to_cog has returned for a raster of 7 by 1 pixels with tile size 3 and
\* automatic levels, and the file has an overview
C15_Witness ==
    /\ CogDone
    /\ ret[1].ok
    /\ call.overview_levels = None
    /\ call.data.width = 7
    /\ call.data.height = 1
    /\ call.tile_size = 3
    /\ Len(cog.output[1].overviews) = 1

\* C16: to_cog returns successfully only if the re-opened output file
\* reports that it is tiled; a file that has no overviews or no compression
\* still passes validation, and a file that is not tiled makes to_cog fail.
C16_ReturnsOnlyIfTiled ==
    CogDone =>
        /\ ret[1].ok => /\ cog.reopen = Some("ok")
                        /\ cog.output # None
                        /\ cog.output[1].tiled
        /\ (cog.reopen = Some("ok") /\ cog.output[1].tiled) => ret[1].ok
        /\ (cog.reopen = Some("ok") /\ ~cog.output[1].tiled) =>
              /\ ~ret[1].ok
              /\ ret[1].error = <<"Failed to save as COG: ",
                                  <<"COG validation failed: ", "File is not tiled">>>>

\* to_cog has returned successfully with a tiled file that has neither
\* overviews nor compression
C16_Witness ==
    /\ CogDone
    /\ ret[1].ok
    /\ cog.output[1].tiled
    /\ cog.output[1].overviews = <<>>
    /\ cog.output[1].compress = None

\* C17: after to_cog returns or raises, at whichever step a failure
\* occurred, the intermediate temporary file it created next to the output
\* path no longer exists.
C17_TempFileGone ==
    CogDone => (temp_path_of(call.output_path) \notin temp_dir.files)

\* to_cog has raised after the write of the output file failed, that is
\* after the intermediate file had been written, and the intermediate file
\* is gone while the partial output file is still there
C17_Witness ==
    /\ CogDone
    /\ ~ret[1].ok
    /\ cog.temp_path = Some(temp_path_of(call.output_path))
    /\ cog.error = Some("cannot write output")
    /\ temp_dir.files = {call.output_path}

\* ========================================================== loader claims
ReadFailed == call.fn = "read_cog_from_url" /\ ret # None /\ call.fault # None

\* the failure mode a raised message reports
Reported(message) ==
    IF \/ Contains(<<"File not found (HTTP 404)">>, message)
       \/ Contains(<<"File not found">>, message)
    THEN "not_found"
    ELSE IF Contains(<<"Access denied (HTTP 403)">>, message) THEN "access_denied"
    ELSE IF Contains(<<"Connection timeout">>, message) THEN "timeout"
    ELSE "other"

\* C18: a failed load is reported as exactly one of not-found, access-denied
\* or timeout according to its actual cause, with a message naming the
\* reference: a timeout or access-denied failure is never reported as
\* not-found, whatever text the reference itself contains.
C18_ReportedByCause ==
    (ReadFailed /\ call.fault[1].cause \in {"not_found", "access_denied", "timeout"}) =>
        /\ ~ret[1].ok
        /\ Contains(call.url, ret[1].error)
        /\ Reported(ret[1].error) = call.fault[1].cause

\* ==================================================== output-file claims
IndicesJob == params.task_type = "indices"

\* an index of the request that is unknown or lacks a band it needs
Offending(index_name) ==
    \/ index_name \notin {"NDVI", "SAVI", "EVI", "VGI"}
    \/ index_name \in {"NDVI", "SAVI"} /\ ~({"nir", "red"} \subseteq params.band_urls)
    \/ index_name = "EVI" /\ ~({"nir", "red", "blue"} \subseteq params.band_urls)
    \/ index_name = "VGI" /\ ~({"green", "red"} \subseteq params.band_urls)

\* C19: an indices job whose request names an unknown index, or lacks a band
\* that a requested index needs, fails with an error naming that index, and
\* it fails before any output file of the job is encoded or uploaded.
\* Stated for requests that have an AOI and some band reference, and for
\* runs in which the referenced bands could be read.
C19_BadIndexFailsBeforeOutput ==
    (/\ IndicesJob
     /\ params.aoi # "absent"
     /\ params.band_urls # {}
     /\ \E k \in DOMAIN params.indices : Offending(params.indices[k])) =>
        /\ s3_objects = {}
        /\ temp_dir.files = {}
        /\ (pc = "done" /\ raised # Some("Failed to read COG from URL")) =>
              /\ exit_code = Some(1)
              /\ \E k \in DOMAIN params.indices :
                    /\ Offending(params.indices[k])
                    /\ raised \in {Some(<<"Unknown index: ", params.indices[k]>>),
                                   Some(<<params.indices[k], " requires bands">>)}

\* C20: when encoding or validating one output fails in a job, the whole
\* job ends failed, and every output uploaded earlier in the same job stays
\* in storage: the failure path deletes no uploaded object.
C20_UploadsSurviveEncodeFailure ==
    (raised = Some("Failed to save as COG")) =>
        /\ \A k \in DOMAIN output_files : output_files[k].s3_key \in s3_objects
        /\ (pc = "done") => (exit_code = Some(1) /\ task.status = "failed")

\* a job has ended failed on the encoding of its second output, and the
\* first output is still in storage
C20_Witness ==
    /\ pc = "done"
    /\ raised = Some("Failed to save as COG")
    /\ exit_code = Some(1)
    /\ task.status = "failed"
    /\ Len(output_files) = 1
    /\ s3_objects = {output_files[1].s3_key}


\* the exception that left to_cog is the ValueError of line 292
IsValueError(r) == ~r.ok /\ r.error[1] = "Failed to save as COG: "

\* C30: to_cog reports every failure as a ValueError, at whichever step the
\* failure occurs, including a failure before the intermediate temporary
\* file path has been set.
C30_EveryFailureIsValueError ==
    (CogDone /\ ~ret[1].ok) => IsValueError(ret[1])

\* composite_monthly has returned to the composite job
Composited == CompositeJob /\ composites # <<>>

\* the request position of the image at position m of clipped_images
RequestPosition(m) == Nth(Kept, m)

\* the positions in clipped_images of the images whose own timestamp (the
\* one at the image's position of the request) falls in the period label
OwnMembers(label) ==
    SelectSeq([m \in 1..Len(clipped_images) |-> m],
              LAMBDA m : period_key(params.image_timestamps[RequestPosition(m)])
                            = label)

\* C23: in a composite job, every image that was loaded successfully is
\* composited under the period of the timestamp given at the same position
\* of the request as that image, for every pattern of skipped images.
C23_CompositedUnderOwnTimestamp ==
    Composited =>
        /\ \A j \in Kept :
              \E k \in DOMAIN composites :
                 composites[k][1] = period_key(params.image_timestamps[j])
        /\ \A k \in DOMAIN composites :
              LET members == OwnMembers(composites[k][1])
              IN  /\ members # <<>>
                  /\ composites[k][2].values[1][1] =
                        nanmean([m \in DOMAIN members |->
                                    clipped_images[members[m]].values[1][1]])

\* C27: the cloud-mask-applied flag in a composite job's metadata is true
\* only if the cloud mask was actually applied to every image that entered
\* a composite of that job.
C27_FlagOnlyIfEveryImageMasked ==
    (CompositeJob /\ result # None) =>
        (result[1].value.metadata.cloud_mask_applied =>
            \A j \in Kept : image_outcome[j] = "masked")

\* =================================================== task lifecycle claims
\* a step of the cancel request
CancelStep == api'.cancel # api.cancel

\* C21: a cancel request never changes a task whose status is completed or
\* failed: no step of the request changes the record of such a task, and a
\* request that reads such a task is rejected, on every cancel entry point
\* and in every interleaving with the worker's updates.
C21_CancelLeavesTerminalTask ==
    [][(CancelStep /\ task.status \in Terminal)
          => /\ task' = task
             /\ api.cancel.pc = "idle" => api'.cancel.response = Some("rejected")]_vars

\* a step of the submit request
SubmitStep == api'.submit # api.submit

\* C24: once the status of the record is completed or failed, no step of a
\* status request and no update of the worker, in any attempt of the job,
\* sets it back to queued or running.
C24_TerminalStatusStays ==
    [][(task.status \in Terminal /\ ~SubmitStep)
          => task'.status \notin {"queued", "running"}]_vars

\* C25: the progress stored in the record of a task never decreases, in
\* every interleaving of the worker's updates with the status requests.
C25_ProgressNeverDecreases == [][task'.progress >= task.progress]_vars

\* the submit request has ended after submit_job failed
SubmitFailed ==
    /\ call.fn = "task"
    /\ api.submit.pc = "done"
    /\ api.submit.response = Some("submit_job failed")

\* C26: when submit_job fails after the record was created, the record ends
\* failed with an error, on every submit entry point.
C26_SubmitFailureMarksFailed ==
    SubmitFailed => (task.status = "failed" /\ task.error # None)

\* the keys the status request looks up for the indices of the task
looked_up ==
    {lookup_key(call.parameters.indices[k]) : k \in DOMAIN call.parameters.indices}

\* the keys the result of a record lists
listed(t) ==
    IF t.result = None THEN {}
    ELSE {t.result[1].output_files[k].s3_key : k \in DOMAIN t.result[1].output_files}

\* the update of a status request that has seen the job SUCCEEDED
SucceededPollWrite ==
    /\ api.poll.pc = "write"
    /\ api.poll.batch_status = Some("SUCCEEDED")
    /\ api'.poll.pc = "idle"

\* C28: every key the worker has uploaded is among the keys the status
\* request looks up once the job has succeeded, and the result the request
\* leaves in the record lists it.
C28_LookupKeyIsUploadKey ==
    [][SucceededPollWrite
          => \A key \in s3_objects : key \in looked_up /\ key \in listed(task')]_vars

\* ================================================ cloud mask frame claims
FrameDone == call.fn = "apply_cloud_mask_arrays" /\ ret # None /\ ret[1].ok

FrameFlag == cloud_mask(call.qa_band.values[1], call.satellite)

FrameOut == ret[1].value[1].values

SweepDone == call.fn = "cleanup_expired_tasks" /\ sweep.pc = "done"

\* the ids of the records created before the cutoff
Expired ==
    {id \in 1..Len(sweep.table) :
        as_aware(sweep.table[id]).t < sweep.cutoff_date[1].t}

\* what holds when the call has returned and no listing failed
SweepExact ==
    (SweepDone /\ ~sweep.list_failed) =>
        /\ sweep.listed = 1..Len(sweep.table)
        /\ sweep.succeeded \cup sweep.failed = Expired
        /\ (1..Len(sweep.table)) \ sweep.present \subseteq Expired
        /\ sweep.succeeded \cap sweep.present = {}
        /\ Expired \cap sweep.present \subseteq sweep.failed
        /\ ret = Some(Cardinality(sweep.succeeded))

\* C29: when listing succeeds, cleanup_expired_tasks visits every page,
\* deletes every task created before the cutoff and no task created at or
\* after it, goes on after a deletion that fails, terminates, and returns
\* the number of deletions that succeeded.
C29_SweepDeletesExpiredAndReturnsCount == []SweepExact /\ <>SweepDone

\* a sweep over more than one page has returned 1 after a deletion failed,
\* a later deletion succeeded and a task created at the cutoff was kept
C29_Witness ==
    /\ SweepDone
    /\ ~sweep.list_failed
    /\ sweep.pages >= 2
    /\ ret = Some(1)
    /\ \E f \in sweep.failed : \E s \in sweep.succeeded : f < s
    /\ \E id \in sweep.present : sweep.table[id].t = sweep.cutoff_date[1].t
====
